---- MODULE Spec2Model ----
(***************************************************************************)
(* Model of the Collage local-node core (src/libs/co/localNode.cpp): the   *)
(* send-token arbitrator run by the command thread, the receiver thread's  *)
(* node and connection maps, the connect handshake and command dispatch.   *)
(*                                                                         *)
(* The module holds several specifications over one set of variables.     *)
(* Each specification drives the variables of one concern and leaves the   *)
(* others at their initial values:                                         *)
(*   SpecToken / SpecTokenFair   the send token                           *)
(*   SpecClose                   the send token and close() of the holder  *)
(*   SpecMaps                    the maps of one receiver thread           *)
(*   SpecConnect                 two LocalNodes connecting to each other   *)
(*   SpecDispatch                dispatch and redispatch of commands       *)
(***************************************************************************)
EXTENDS Integers, Sequences, FiniteSets, TLC

(***************************************************************************)
(* Bounds of the model.                                                    *)
(***************************************************************************)
MaxAcquires == 1     \* acquireSendToken calls made by each peer
MaxTime == 2         \* clock readings 0..MaxTime (getTime64)
TimeoutMs == 1       \* the finite value Global::getTimeout() may have

(* lunchbox's "no timeout" value (all ones in 32 bits), which line 1801    *)
(* compares against; it stands here as the largest integer TLC holds.      *)
LB_TIMEOUT_INDEFINITE == 2147483647

Peers == {"p1", "p2", "p3"}   \* the peers that talk to the token holder
NULL == "null"                \* a null NodePtr / SendToken handle
HOLDER == "holder"            \* the NodePtr of the token-holder node

(***************************************************************************)
(* State of the send-token concern.                                        *)
(***************************************************************************)
VARIABLES
    now,             \* lunchbox::Clock reading returned by getTime64()
    timeout,         \* Global::getTimeout(), fixed for a run
    state,           \* LocalNode::_state of the holder
    closePc,         \* position of the application thread inside close()
    wire,            \* wire[p]: packets sent by peer p, not yet read
    cmdThreadQueue,  \* the command thread's queue (getCommandThreadQueue)
    sendToken,       \* detail::LocalNode::sendToken
    lastSendToken,   \* detail::LocalNode::lastSendToken
    sendTokenQueue,  \* detail::LocalNode::sendTokenQueue
    refCount,        \* reference count of every allocated Command
    replies,         \* replies[p]: ACQUIRE_SEND_TOKEN_REPLY packets to p
    appPhase,        \* appPhase[p]: "idle" or "waiting" (in waitRequest)
    appToken,        \* appToken[p]: the SendToken handle the application holds
    reqTime,         \* reqTime[p]: clock reading when the request was sent
    nAcquires,       \* nAcquires[p]: requests registered by p so far
    relCalls,        \* releaseSendToken calls made on the current handle
    granted,         \* history: peers sent a reply whose RELEASE is not handled
    unanswered,      \* history: handled ACQUIREs not yet replied to, in order
    timeoutElapsed,  \* history: an ACQUIRE met an expired, outstanding token
    foreignRelease   \* history: a RELEASE was handled from a non-grantee

tokenVars == << now, timeout, state, closePc, wire, cmdThreadQueue, sendToken,
                lastSendToken, sendTokenQueue, refCount, replies, appPhase,
                appToken, reqTime, nAcquires, relCalls, granted, unanswered,
                timeoutElapsed, foreignRelease >>

(***************************************************************************)
(* State of the receiver threads.                                          *)
(***************************************************************************)
VARIABLES
    ln,               \* ln[s]: the receiver-side state of LocalNode s
    usedConns         \* connections the environment of side A has created

mapVars == << ln, usedConns >>

(***************************************************************************)
(* State of the connect handshake between the LocalNodes A and B.          *)
(***************************************************************************)
VARIABLES
    net,              \* net[c]: the connection c between the two sides
    app               \* app[s]: the thread of side s inside connect()

hsVars == << net, app >>

(***************************************************************************)
(* State of the command dispatch of one connection.                        *)
(***************************************************************************)
VARIABLES
    dWire,            \* commands sent on the connection, not yet read
    pendingCommands,  \* detail::LocalNode::pendingCommands
    mapped,           \* objects whose commands the object store takes
    dispatched,       \* history: wire numbers in the order handlers took them
    attempted,        \* history: wire numbers in the order of first dispatch
    deferred          \* history: wire numbers deferred at first dispatch

dispVars == << dWire, pendingCommands, mapped, dispatched, attempted,
               deferred >>

(* tokenVars without refCount *)
tokenRest == << now, timeout, state, closePc, wire, cmdThreadQueue, sendToken,
                lastSendToken, sendTokenQueue, replies, appPhase, appToken,
                reqTime, nAcquires, relCalls, granted, unanswered,
                timeoutElapsed, foreignRelease >>

(***************************************************************************)
(* State of the application threads of side A that call connect( nodeID ). *)
(***************************************************************************)
VARIABLES
    connectLock,      \* detail::LocalNode::connectLock: its holder, if any
    call,             \* call[t]: thread t inside connect( nodeID )
    nAttempts,        \* history: handshakes thread t has started
    outcomes,         \* history: results _connect( node ) gave thread t
    timedOut          \* history: << connection, Node >> of timed-out waits

callVars == << connectLock, call, nAttempts, outcomes, timedOut >>

VARIABLE refusals     \* history: calls of close() that returned false

closeVars == << refusals >>

VARIABLE disc         \* the thread of side A that calls disconnect( node )

discVars == << disc >>

(***************************************************************************)
(* State of one ObjectDataIStream.                                         *)
(***************************************************************************)
VARIABLES
    ndebug,           \* whether the build defines NDEBUG
    commands,         \* _commands: the deque, 0 for the null entry
    ready,            \* set by _setReady
    fatal,            \* an assertion of addDataPacket has failed
    packets,          \* history: the packets handed to addDataPacket
    returned,         \* history: what the calls of getNextCommand returned
    sRefs,            \* references the stream holds on each command
    earlyGet          \* history: getNextCommand was called before ready

streamVars == << ndebug, commands, ready, fatal, packets, returned, sRefs,
                 earlyGet >>

VARIABLES
    resetAt,          \* history: lengths of packets and returned at reset()
    copies,           \* _commands of the copies of the stream
    destroyed         \* the stream is destroyed

lifeVars == << resetAt, copies, destroyed >>

VARIABLES
    old_,             \* the argument old_ of deserializeChildren
    versions,         \* the ObjectVersions read from the stream
    isMaster,         \* object->isMaster()
    alias,            \* old_ and result are the same vector object
    result,           \* the argument result
    syncs,            \* history: the calls child->sync( version ), in order
    mapCalls,         \* history: the calls localNode->mapObject, in order
    removals,         \* history: the unmapObject and release calls, in order
    attached,         \* history: the children whose isAttached() was true
    childIsMaster,    \* history: child->isMaster() of the children
    dcPc              \* position of the caller of deserializeChildren

childVars == << old_, versions, isMaster, alias, result, syncs, mapCalls,
                removals, attached, childIsMaster, dcPc >>

VARIABLES
    nDoubles,         \* the number of doubles the sender writes
    message,          \* the text the sender writes
    ioNdebug,         \* whether the receiver's build defines NDEBUG
    wpc,              \* write operations Sender::run has made
    obuf,             \* the data written and not yet sent
    disabled,         \* stream.disable() was called
    pipe,             \* the commands on the connection: data and last flag
    rcvQueue,         \* DataIStream::_commands of the test, data only
    receiving,        \* main's receiving
    input,            \* the current buffer of the DataIStream
    position,         \* the read position in the current buffer
    rpc,              \* values main has read
    got,              \* history: the values read, in order
    ioErr             \* "none", or how the read failed

ioVars == << nDoubles, message, ioNdebug, wpc, obuf, disabled, pipe,
             rcvQueue, receiving, input, position, rpc, got, ioErr >>

VARIABLES
    rcMaster,         \* isMaster() of the owner
    rcChildren0,      \* history: children when releaseChildren was called
    rcChildren,       \* children, the owner's vector
    rcAttached,       \* the children for which isAttached() holds
    rcReleased,       \* history: the children handed to release(), in order
    rcPc              \* position of the caller of releaseChildren

rcVars == << rcMaster, rcChildren0, rcChildren, rcAttached, rcReleased,
             rcPc >>

VARIABLES
    rdPc,             \* position of the receiver thread: "idle", in the
                      \* loop of _redispatchCommands, or "returned" from it
    changes,          \* the local variable changes
    rdCmd,            \* the command _dispatchCommand has yet to keep
    passes            \* history: the passes of the loop of this call

rdVars == << rdPc, changes, rdCmd, passes >>

VARIABLES
    nErrors,          \* the local variable nErrors of _runReceiverThread
    errRun,           \* history: EVENT_ERROR results of select() in a row
    selRun,           \* history: EVENT_SELECT_ERROR results in a row
    rtForced,         \* history: the last event called _handleDisconnect
    rtAborted         \* EQUNIMPLEMENTED was reached

rtVars == << nErrors, errRun, selRun, rtForced, rtAborted >>

VARIABLES
    hdPc,             \* position of the receiver thread in _handleDisconnect
    hdConn,           \* the connection of the event it handles
    hdResidual,       \* history: dWire when the event was signalled
    hdLog,            \* history: the steps _handleDisconnect has taken
    hdMark,           \* history: attempted when REMOVE_NODE was dispatched
    hdTaken           \* history: dispatched when REMOVE_NODE was dispatched

hdVars == << hdPc, hdConn, hdResidual, hdLog, hdMark, hdTaken >>

VARIABLES
    lsPc,             \* the application's call of listen(): result, or not yet
    lsDescriptions,   \* the connection descriptions of the node
    lsArg,            \* the connection given to listen( connection ), if any
    lsNdebug,         \* the build has no assertions
    rcvStarted        \* receiverThread->start() was called

lsVars == << lsPc, lsDescriptions, lsArg, lsNdebug, rcvStarted >>

(* The groups that the actions of the concerns above never touch. *)
laterVars == << callVars, closeVars, discVars, streamVars, lifeVars,
               childVars, ioVars, rcVars, rdVars,
                rtVars, hdVars, lsVars >>

nonTokenVars == << mapVars, hsVars, dispVars, laterVars >>
nonMapVars == << tokenVars, hsVars, dispVars, laterVars >>
nonCallVars == << tokenVars, usedConns, hsVars, dispVars, closeVars,
                 discVars, streamVars, lifeVars, childVars, ioVars, rcVars,
                 rdVars,
                rtVars, hdVars, lsVars >>
nonStreamVars == << tokenVars, mapVars, hsVars, dispVars, callVars,
                   closeVars, discVars, lifeVars, childVars, ioVars, rcVars,
                   rdVars,
                rtVars, hdVars, lsVars >>
nonLifeVars == << tokenVars, mapVars, hsVars, dispVars, callVars,
                 closeVars, discVars, childVars, ioVars, rcVars, rdVars,
                rtVars, hdVars, lsVars >>

nonIoVars == << tokenVars, mapVars, hsVars, dispVars, callVars,
               closeVars, discVars, streamVars, lifeVars, childVars,
               rcVars, rdVars,
                rtVars, hdVars, lsVars >>

nonRcVars == << tokenVars, mapVars, hsVars, dispVars, callVars,
               closeVars, discVars, streamVars, lifeVars, childVars,
               ioVars, rdVars,
                rtVars, hdVars, lsVars >>

(* laterVars without rdVars *)
laterRest == << callVars, closeVars, discVars, streamVars, lifeVars,
               childVars, ioVars, rcVars,
                rtVars, hdVars, lsVars >>

nonRtVars == << tokenVars, mapVars, hsVars, dispVars, callVars,
               closeVars, discVars, streamVars, lifeVars, childVars,
               ioVars, rcVars, rdVars, hdVars, lsVars >>

(* laterVars without hdVars *)
hdRest == << callVars, closeVars, discVars, streamVars, lifeVars,
            childVars, ioVars, rcVars, rdVars, rtVars, lsVars >>

(* laterVars without lsVars *)
lsRest == << callVars, closeVars, discVars, streamVars, lifeVars,
            childVars, ioVars, rcVars, rdVars, rtVars, hdVars >>

vars == << tokenVars, mapVars, hsVars, dispVars, callVars, closeVars,
          discVars, streamVars, lifeVars, childVars, ioVars, rcVars, rdVars,
                rtVars, hdVars, lsVars >>

(***************************************************************************)
(* Helpers.                                                                *)
(***************************************************************************)
Command(c, p, i) == [command |-> c, node |-> p, id |-> i]

RECURSIVE Without(_, _)
Without(s, x) ==
    IF s = << >> THEN << >>
    ELSE IF Head(s) = x THEN Without(Tail(s), x)
         ELSE << Head(s) >> \o Without(Tail(s), x)

Range(s) == { s[i] : i \in 1 .. Len(s) }

(* Command::retain / Command::release on the reference count map *)
Retain(rc, c) ==
    IF c \in DOMAIN rc THEN [rc EXCEPT ![c] = @ + 1] ELSE (c :> 1) @@ rc

Release(rc, c) == [rc EXCEPT ![c] = @ - 1]

(***************************************************************************)
(* Send token: the requesting side (application threads of the peers).     *)
(***************************************************************************)

(* LocalNode::acquireSendToken up to waitRequest: register a request and   *)
(* send the ACQUIRE packet to the holder.                                  *)
AcquireSendToken(p) ==
    /\ state = "LISTENING"
    /\ appPhase[p] = "idle"
    /\ appToken[p] = NULL
    /\ nAcquires[p] < MaxAcquires
    /\ nAcquires' = [nAcquires EXCEPT ![p] = @ + 1]
    /\ wire' = [wire EXCEPT
                  ![p] = Append(@, Command("ACQUIRE", p, nAcquires[p] + 1))]
    /\ appPhase' = [appPhase EXCEPT ![p] = "waiting"]
    /\ reqTime' = [reqTime EXCEPT ![p] = now]
    /\ relCalls' = [relCalls EXCEPT ![p] = 0]
    /\ UNCHANGED << now, timeout, state, closePc, cmdThreadQueue, sendToken,
                    lastSendToken, sendTokenQueue, refCount, replies,
                    appToken, granted, unanswered, timeoutElapsed,
                    foreignRelease >>
    /\ UNCHANGED nonTokenVars

(* LocalNode::_cmdAcquireSendTokenReply on the peer: serveRequest wakes    *)
(* the waiting acquireSendToken, which returns the holder node. A reply    *)
(* for a request that is no longer registered serves nothing.              *)
CmdAcquireSendTokenReply(p) ==
    /\ replies[p] # << >>
    /\ replies' = [replies EXCEPT ![p] = Tail(@)]
    /\ IF appPhase[p] = "waiting" /\ Head(replies[p]) = nAcquires[p]
       THEN /\ appPhase' = [appPhase EXCEPT ![p] = "idle"]
            /\ appToken' = [appToken EXCEPT ![p] = HOLDER]
       ELSE UNCHANGED << appPhase, appToken >>
    /\ UNCHANGED << now, timeout, state, closePc, wire, cmdThreadQueue,
                    sendToken, lastSendToken, sendTokenQueue, refCount,
                    reqTime, nAcquires, relCalls, granted, unanswered,
                    timeoutElapsed, foreignRelease >>
    /\ UNCHANGED nonTokenVars

(* LocalNode::acquireSendToken when waitRequest times out: returns 0.      *)
AcquireTimeout(p) ==
    /\ appPhase[p] = "waiting"
    /\ timeout # LB_TIMEOUT_INDEFINITE
    /\ now - reqTime[p] > timeout
    /\ appPhase' = [appPhase EXCEPT ![p] = "idle"]
    /\ UNCHANGED << now, timeout, state, closePc, wire, cmdThreadQueue,
                    sendToken, lastSendToken, sendTokenQueue, refCount,
                    replies, appToken, reqTime, nAcquires, relCalls, granted,
                    unanswered, timeoutElapsed, foreignRelease >>
    /\ UNCHANGED nonTokenVars

(* A release that forgets to clear the handle (node = 0 left out).         *)
ReleaseSendToken_keepHandle(p) ==
    /\ appPhase[p] = "idle"
    /\ nAcquires[p] > 0
    /\ appToken[p] # NULL \/ relCalls[p] = 1
    /\ relCalls' = [relCalls EXCEPT ![p] = @ + 1]
    /\ IF appToken[p] = NULL
       THEN UNCHANGED << wire, appToken >>
       ELSE /\ wire' = [wire EXCEPT
                          ![p] = Append(@, Command("RELEASE", p,
                                                   relCalls[p] + 1))]
            /\ UNCHANGED appToken
    /\ UNCHANGED << now, timeout, state, closePc, cmdThreadQueue, sendToken,
                    lastSendToken, sendTokenQueue, refCount, replies,
                    appPhase, reqTime, nAcquires, granted, unanswered,
                    timeoutElapsed, foreignRelease >>
    /\ UNCHANGED nonTokenVars

(* LocalNode::releaseSendToken( SendToken& node ): nothing for a null      *)
(* handle, else send RELEASE and clear the caller's handle. The model      *)
(* lets the application call it once with the handle it was given and      *)
(* once more afterwards.                                                   *)
ReleaseSendToken(p) ==
    /\ appPhase[p] = "idle"
    /\ nAcquires[p] > 0
    /\ appToken[p] # NULL \/ relCalls[p] = 1
    /\ relCalls' = [relCalls EXCEPT ![p] = @ + 1]
    /\ IF appToken[p] = NULL
       THEN UNCHANGED << wire, appToken >>
       ELSE /\ wire' = [wire EXCEPT
                          ![p] = Append(@, Command("RELEASE", p,
                                                   relCalls[p] + 1))]
            /\ appToken' = [appToken EXCEPT ![p] = NULL]
    /\ UNCHANGED << now, timeout, state, closePc, cmdThreadQueue, sendToken,
                    lastSendToken, sendTokenQueue, refCount, replies,
                    appPhase, reqTime, nAcquires, granted, unanswered,
                    timeoutElapsed, foreignRelease >>
    /\ UNCHANGED nonTokenVars

(***************************************************************************)
(* Send token: the holder.                                                 *)
(***************************************************************************)

(* Receiver thread, _handleData and _dispatchCommand for a packet of peer  *)
(* p whose handler is registered with the command thread queue: the        *)
(* command is allocated, retained for the dispatch, pushed (the queue      *)
(* retains it) and released again.                                         *)
HandleData(p) ==
    /\ state = "LISTENING"
    /\ wire[p] # << >>
    /\ wire' = [wire EXCEPT ![p] = Tail(@)]
    /\ cmdThreadQueue' = Append(cmdThreadQueue, Head(wire[p]))
    /\ refCount' = Release(Retain(Retain(refCount, Head(wire[p])),
                                  Head(wire[p])), Head(wire[p]))
    /\ UNCHANGED << now, timeout, state, closePc, sendToken, lastSendToken,
                    sendTokenQueue, replies, appPhase, appToken, reqTime,
                    nAcquires, relCalls, granted, unanswered, timeoutElapsed,
                    foreignRelease >>
    /\ UNCHANGED nonTokenVars

(* The test of line 1798 as the compiler reads it: ( !sendToken ) == 0.    *)
EnqueueTest(tok) == (IF tok THEN 0 ELSE 1) = 0

(* The elapsed-time comparison turned around.                              *)
WithinTimeout_flipped(t, last, tmo) ==
    tmo = LB_TIMEOUT_INDEFINITE \/ t - last >= tmo

(* Lines 1801-1802: the request may wait.                                  *)
WithinTimeout(t, last, tmo) ==
    tmo = LB_TIMEOUT_INDEFINITE \/ t - last <= tmo

(* The reply of lines 1816-1819 / 1847-1851, with the history it makes.    *)
SendReply(c) ==
    /\ replies' = [replies EXCEPT ![c.node] = Append(@, c.id)]
    /\ unanswered' = Without(unanswered, c)

(* LocalNode::_cmdAcquireSendToken, run by the command thread (Worker      *)
(* pops the command, invokes the handler and releases the command).        *)
CmdAcquireSendToken ==
    /\ state # "CLOSED"
    /\ cmdThreadQueue # << >>
    /\ Head(cmdThreadQueue).command = "ACQUIRE"
    /\ LET c == Head(cmdThreadQueue) IN
       /\ cmdThreadQueue' = Tail(cmdThreadQueue)
       /\ timeoutElapsed' =
              (timeoutElapsed \/ (/\ granted # {}
                                  /\ timeout # LB_TIMEOUT_INDEFINITE
                                  /\ now - lastSendToken > timeout))
       /\ IF EnqueueTest(sendToken)
             /\ WithinTimeout(now, lastSendToken, timeout)
          THEN /\ sendTokenQueue' = Append(sendTokenQueue, c)
               /\ refCount' = Release(Retain(refCount, c), c)
               /\ unanswered' = Append(unanswered, c)
               /\ UNCHANGED << sendToken, replies, granted >>
          ELSE /\ sendTokenQueue' =
                     IF EnqueueTest(sendToken) THEN << >> ELSE sendTokenQueue
               /\ sendToken' = FALSE
               /\ SendReply(c)
               /\ granted' = granted \cup {c.node}
               /\ refCount' = Release(refCount, c)
    /\ UNCHANGED << now, timeout, state, closePc, wire, lastSendToken,
                    appPhase, appToken, reqTime, nAcquires, relCalls,
                    foreignRelease >>
    /\ UNCHANGED nonTokenVars

(* LocalNode::_cmdReleaseSendToken, run by the command thread.             *)
CmdReleaseSendToken ==
    /\ state # "CLOSED"
    /\ cmdThreadQueue # << >>
    /\ Head(cmdThreadQueue).command = "RELEASE"
    /\ LET c == Head(cmdThreadQueue) IN
       /\ cmdThreadQueue' = Tail(cmdThreadQueue)
       /\ lastSendToken' = now
       /\ foreignRelease' = (foreignRelease \/ c.node \notin granted)
       /\ IF sendToken
          THEN /\ refCount' = Release(refCount, c)
               /\ granted' = granted \ {c.node}
               /\ UNCHANGED << sendToken, sendTokenQueue, replies,
                               unanswered >>
          ELSE IF sendTokenQueue = << >>
          THEN /\ sendToken' = TRUE
               /\ refCount' = Release(refCount, c)
               /\ granted' = granted \ {c.node}
               /\ UNCHANGED << sendTokenQueue, replies, unanswered >>
          ELSE /\ sendTokenQueue' = Tail(sendTokenQueue)
               /\ SendReply(Head(sendTokenQueue))
               /\ granted' = (granted \ {c.node})
                                \cup {Head(sendTokenQueue).node}
               /\ refCount' = Release(Release(refCount,
                                              Head(sendTokenQueue)), c)
               /\ UNCHANGED sendToken
    /\ UNCHANGED << now, timeout, state, closePc, wire, appPhase, appToken,
                    reqTime, nAcquires, relCalls, timeoutElapsed >>
    /\ UNCHANGED nonTokenVars

(* The clock advances.                                                     *)
Tick ==
    /\ now < MaxTime
    /\ now' = now + 1
    /\ UNCHANGED << timeout, state, closePc, wire, cmdThreadQueue, sendToken,
                    lastSendToken, sendTokenQueue, refCount, replies,
                    appPhase, appToken, reqTime, nAcquires, relCalls, granted,
                    unanswered, timeoutElapsed, foreignRelease >>
    /\ UNCHANGED nonTokenVars

(* The application changes the timeout that Global::getTimeout() returns,  *)
(* which _cmdAcquireSendToken reads on every call.                         *)
SetTimeout(t) ==
    /\ timeout # t
    /\ timeout' = t
    /\ UNCHANGED << now, state, closePc, wire, cmdThreadQueue, sendToken,
                    lastSendToken, sendTokenQueue, refCount, replies,
                    appPhase, appToken, reqTime, nAcquires, relCalls, granted,
                    unanswered, timeoutElapsed, foreignRelease >>
    /\ UNCHANGED nonTokenVars

(***************************************************************************)
(* The receiver thread's maps. The receiver-side state of a LocalNode is   *)
(* a record                                                                *)
(*   incoming         the connection set                                   *)
(*   connectionNodes  connection -> Node                                   *)
(*   nodes            NodeID -> Node                                       *)
(*   node             the Node objects: id, state, outgoing, outMulticast, *)
(*                    multicasts                                           *)
(*   alloc            the Node objects that exist                          *)
(*   pendingConnect   connection -> request data of the CONNECT sent on it *)
(* and every handler is an operator from that record, and what the handler *)
(* reads, to the record it leaves.                                         *)
(***************************************************************************)
MaxNodes == 2        \* Node objects of one LocalNode besides itself
MaxLive == 2         \* connections of one side's connect() open at a time
Tries == 10          \* size_t tries = 10 in _connect( nodeID, peer )

Sides == {"A", "B"}              \* the LocalNodes
Other(s) == IF s = "A" THEN "B" ELSE "A"
IdOf(s) == IF s = "A" THEN "idA" ELSE "idB"     \* LocalNode::_id
AllIDs == {"idA", "idB", "idC"}  \* NodeIDs
ZERO == "zero"                   \* NodeID::ZERO
SELF == 0                        \* the LocalNode itself ( this )
NoNode == -1                     \* a null NodePtr in a map or a request
Objs == 0 .. MaxNodes            \* Node objects, SELF included

(* Connections are << kind, number >>: "u" unicast, "m" accepted from a    *)
(* multicast group, "lu" and "lm" listeners, "a" and "b" the unicast       *)
(* connections that connect() of side A and of side B creates.             *)
NOCONN == << "none", 0 >>        \* a null ConnectionPtr
PIPE == << "pipe", 0 >>          \* the pipe connection of _connectSelf
PIPE_OUT == << "pipeOut", 0 >>   \* its accepted end, the node's _outgoing
LU == << "lu", 0 >>
LM == << "lm", 0 >>
UConns == { << "u", i >> : i \in 1 .. 2 }
MConns == { << "m", i >> : i \in 1 .. 2 }
Listeners == {LU, LM}
MListeners == {LM}
MadeBy(s) == { << (IF s = "A" THEN "a" ELSE "b"), i >> : i \in 1 .. MaxLive }
Conns == UConns \cup MConns \cup Listeners \cup {PIPE}
             \cup MadeBy("A") \cup MadeBy("B")

(* Node::isConnected *)
IsConnected(n) == n.state = "CONNECTED" \/ n.state = "LISTENING"

(* A Node as createNode returns it. *)
FreshNode == [id |-> ZERO, state |-> "CLOSED", outgoing |-> NOCONN,
              outMulticast |-> NOCONN, multicasts |-> {}]

(* The Node object the next createNode returns, if one is left. *)
CanCreate(n) == (1 .. MaxNodes) \ n.alloc # {}

NewNode(n) ==
    CHOOSE o \in (1 .. MaxNodes) \ n.alloc :
        \A o2 \in (1 .. MaxNodes) \ n.alloc : o <= o2

(* LocalNode::_connectMulticast( node ) on the Node objects nd. Whether    *)
(* the peer's descriptions share a multicast group with the local ones,    *)
(* and whether the local _outMulticast has that description, is input:     *)
(* mode is "none", "shared" or "list".                                     *)
ConnectMulticast(nd, o, mode) ==
    IF nd[o].outMulticast # NOCONN \/ mode = "none" THEN nd
    ELSE IF nd[SELF].outMulticast # NOCONN /\ mode = "shared"
    THEN [nd EXCEPT ![o].outMulticast = nd[SELF].outMulticast]
    ELSE [nd EXCEPT ![o].multicasts = @ \cup nd[SELF].multicasts]

(* LocalNode::_handleConnect: the accepted connection c joins the set.     *)
handleConnect(n, c) == [n EXCEPT !.incoming = @ \cup {c}]

(* LocalNode::_connect( node, connection ) up to waitRequest: the          *)
(* connection joins the set and the CONNECT is sent with Node o as         *)
(* request data.                                                           *)
connect(n, o, c) ==
    [n EXCEPT !.incoming = @ \cup {c},
              !.pendingConnect[c] = o,
              !.alloc = @ \cup {o}]

(* A _cmdConnect without the test for a connected node: the connection     *)
(* of the CONNECT replaces the one the node has.                           *)
cmdConnect_accept(n, c, id) ==
    LET known == n.nodes[id] # NoNode
        remoteNode == IF known THEN n.nodes[id] ELSE NewNode(n)
    IN [n EXCEPT
          !.alloc = @ \cup {remoteNode},
          !.node[remoteNode] =
              [(IF known THEN @ ELSE FreshNode) EXCEPT
                  !.id = id, !.outgoing = c, !.state = "CONNECTED"],
          !.connectionNodes[c] = remoteNode,
          !.nodes[id] = remoteNode]

(* LocalNode::_cmdConnect: CONNECT with NodeID id read from connection c.  *)
(* A refusal leaves c out of the connection set.                           *)
cmdConnect(n, c, id) ==
    IF n.nodes[id] # NoNode /\ IsConnected(n.node[n.nodes[id]])
    THEN [n EXCEPT !.incoming = @ \ {c}]
    ELSE LET known == n.nodes[id] # NoNode
             remoteNode == IF known THEN n.nodes[id] ELSE NewNode(n)
         IN [n EXCEPT
               !.alloc = @ \cup {remoteNode},
               !.node[remoteNode] =
                   [(IF known THEN @ ELSE FreshNode) EXCEPT
                       !.id = id, !.outgoing = c, !.state = "CONNECTED"],
               !.connectionNodes[c] = remoteNode,
               !.nodes[id] = remoteNode]

(* A _cmdConnectReply that maps the connection of every reply to the Node  *)
(* of the request, refused or not.                                         *)
cmdConnectReply_keep(n, c, id, mode) ==
    [n EXCEPT !.connectionNodes[c] = n.pendingConnect[c],
              !.pendingConnect[c] = NoNode]

(* LocalNode::_cmdConnectReply: CONNECT_REPLY with NodeID id (ZERO for a   *)
(* refusal) read from connection c. The request is served true exactly     *)
(* when c ends up mapped to a Node.                                        *)
cmdConnectReply(n, c, id, mode) ==
    IF id = ZERO
    THEN [n EXCEPT !.incoming = @ \ {c}, !.pendingConnect[c] = NoNode]
    ELSE IF n.nodes[id] # NoNode /\ IsConnected(n.node[n.nodes[id]])
    THEN LET peer == n.nodes[id] IN
         [n EXCEPT !.incoming = @ \ {c},
                   !.pendingConnect[c] = NoNode,
                   !.node[peer].state = "CLOSED",
                   !.node[peer].outgoing = NOCONN,
                   !.connectionNodes[n.node[peer].outgoing] = NoNode,
                   !.nodes[id] = NoNode]
    ELSE LET peer == IF n.nodes[id] # NoNode THEN n.nodes[id]
                     ELSE n.pendingConnect[c]
             connected == [n.node EXCEPT ![peer].id = id,
                                         ![peer].outgoing = c,
                                         ![peer].state = "CONNECTED"]
         IN [n EXCEPT !.pendingConnect[c] = NoNode,
                      !.node = ConnectMulticast(connected, peer, mode),
                      !.connectionNodes[c] = peer,
                      !.nodes[id] = peer]

(* LocalNode::_cmdConnectAck from Node o. *)
cmdConnectAck(n, o, mode) ==
    [n EXCEPT !.node = ConnectMulticast(n.node, o, mode)]

(* LocalNode::_cmdID: the ID packet with NodeID id read from multicast     *)
(* connection c, which no Node is mapped to yet.                           *)
cmdID(n, c, id) ==
    LET known == n.nodes[id] # NoNode
        o == IF id = n.node[SELF].id THEN SELF
             ELSE IF known THEN n.nodes[id] ELSE NewNode(n)
        created == IF id = n.node[SELF].id \/ known THEN n.node
                   ELSE [n.node EXCEPT ![o] = [FreshNode EXCEPT !.id = id]]
    IN [n EXCEPT
          !.alloc = IF o = SELF THEN @ ELSE @ \cup {o},
          !.nodes[id] = o,
          !.node =
              IF created[o].outMulticast # NOCONN
              THEN IF created[o].outMulticast = c THEN created
                   ELSE [created EXCEPT ![o].multicasts = @ \cup {c}]
              ELSE [created EXCEPT ![o].outMulticast = c,
                                   ![o].multicasts = @ \ {c}],
          !.connectionNodes[c] = o]

(* LocalNode::_cmdDisconnect for the request of disconnect( node ).        *)
cmdDisconnect(n, o) ==
    LET connection == n.node[o].outgoing IN
    IF connection # NOCONN
    THEN [n EXCEPT !.node[o].state = "CLOSED",
                   !.node[o].outgoing = NOCONN,
                   !.incoming = @ \ {connection},
                   !.connectionNodes[connection] = NoNode,
                   !.nodes[n.node[o].id] = NoNode]
    ELSE n

(* LocalNode::_handleDisconnect for a disconnect event on connection c     *)
(* with no unread data left on it. The REMOVE_NODE command it dispatches   *)
(* goes to the command thread and touches none of the maps.                *)
handleDisconnect(n, c) ==
    LET o == n.connectionNodes[c] IN
    IF o = NoNode
    THEN [n EXCEPT !.incoming = @ \ {c}]
    ELSE IF n.node[o].outgoing = c
    THEN [n EXCEPT !.node[o] = [FreshNode EXCEPT !.id = n.node[o].id],
                   !.incoming = (@ \ {n.node[o].outMulticast}) \ {c},
                   !.connectionNodes[c] = NoNode,
                   !.nodes[n.node[o].id] = NoNode]
    ELSE [n EXCEPT !.node[o] =
                       IF @.outMulticast = c
                       THEN [@ EXCEPT !.outMulticast = NOCONN]
                       ELSE [@ EXCEPT !.multicasts = @ \ {c}],
                   !.incoming = @ \ {c}]

(* LocalNode::_cmdAddListener for the node's own ADD_LISTENER packet.      *)
cmdAddListener(n, c) ==
    [n EXCEPT !.connectionNodes[c] = SELF,
              !.incoming = @ \cup {c},
              !.node[SELF].multicasts =
                  IF c \in MListeners THEN @ \cup {c} ELSE @]

(* LocalNode::_cmdRemoveListener for the node's own REMOVE_LISTENER packet *)
(* naming one of its listeners.                                            *)
cmdRemoveListener(n, c) ==
    [n EXCEPT !.node[SELF].multicasts =
                  IF c \in MListeners THEN @ \ {c} ELSE @,
              !.incoming = @ \ {c},
              !.connectionNodes[c] = NoNode]

(* The receiver-side state of side s after listen() with one unicast       *)
(* description: _connectSelf has mapped the pipe connection and the        *)
(* NodeID of the node itself, and the listener is mapped to it.            *)
Listening(s) ==
    [incoming |-> {PIPE, LU},
     connectionNodes |-> [c \in Conns |->
                             IF c \in {PIPE, LU} THEN SELF ELSE NoNode],
     nodes |-> [id \in AllIDs |-> IF id = IdOf(s) THEN SELF ELSE NoNode],
     node |-> [o \in Objs |->
                 IF o = SELF
                 THEN [id |-> IdOf(s), state |-> "LISTENING",
                       outgoing |-> PIPE_OUT, outMulticast |-> NOCONN,
                       multicasts |-> {}]
                 ELSE FreshNode],
     alloc |-> {},
     pendingConnect |-> [c \in Conns |-> NoNode]]

MapInit ==
    /\ ln = [s \in Sides |-> Listening(s)]
    /\ usedConns = {PIPE, LU}

(***************************************************************************)
(* The receiver thread of side A, fed by its environment: each action is   *)
(* one event or command with the input it carries.                         *)
(***************************************************************************)
Handled(n) ==
    /\ ln' = [ln EXCEPT !["A"] = n]
    /\ UNCHANGED nonMapVars

HandleConnect(l, c) ==
    /\ state = "LISTENING"
    /\ l \in ln["A"].incoming \cap Listeners
    /\ c \notin usedConns
    /\ c \in (IF l \in MListeners THEN MConns ELSE UConns)
    /\ usedConns' = usedConns \cup {c}
    /\ Handled(handleConnect(ln["A"], c))

(* The application calls _connect( node, connection ) with a closed Node,  *)
(* a new one or one it still holds.                                        *)
Connect(o, c) ==
    /\ state = "LISTENING"
    /\ c \in UConns \ usedConns
    /\ \/ o \in ln["A"].alloc
       \/ CanCreate(ln["A"]) /\ o = NewNode(ln["A"])
    /\ ln["A"].node[o].state = "CLOSED"
    /\ \A c2 \in ln["A"].incoming : ln["A"].pendingConnect[c2] # o
    /\ usedConns' = usedConns \cup {c}
    /\ Handled(connect(ln["A"], o, c))

CmdConnect(c, id) ==
    /\ state = "LISTENING"
    /\ c \in ln["A"].incoming \cap UConns
    /\ ln["A"].connectionNodes[c] = NoNode
    /\ ln["A"].pendingConnect[c] = NoNode
    /\ ln["A"].nodes[id] = NoNode => CanCreate(ln["A"])
    /\ UNCHANGED usedConns
    /\ Handled(cmdConnect(ln["A"], c, id))

CmdConnectReply(c, id, mode) ==
    /\ state = "LISTENING"
    /\ c \in ln["A"].incoming
    /\ ln["A"].connectionNodes[c] = NoNode
    /\ ln["A"].pendingConnect[c] # NoNode
    /\ UNCHANGED usedConns
    /\ Handled(cmdConnectReply(ln["A"], c, id, mode))

(* CONNECT_ACK read from the unicast connection of Node o. *)
CmdConnectAck(o, mode) ==
    /\ state = "LISTENING"
    /\ o \in ln["A"].alloc
    /\ ln["A"].node[o].outgoing \in ln["A"].incoming
    /\ ln["A"].connectionNodes[ln["A"].node[o].outgoing] = o
    /\ UNCHANGED usedConns
    /\ Handled(cmdConnectAck(ln["A"], o, mode))

CmdID(c, id) ==
    /\ state = "LISTENING"
    /\ c \in ln["A"].incoming \cap MConns
    /\ ln["A"].connectionNodes[c] = NoNode
    /\ ln["A"].nodes[id] = NoNode => CanCreate(ln["A"])
    /\ UNCHANGED usedConns
    /\ Handled(cmdID(ln["A"], c, id))

(* LocalNode::disconnect( node ) with a connected node, and the handling   *)
(* of its DISCONNECT packet.                                               *)
CmdDisconnect(o) ==
    /\ state = "LISTENING"
    /\ o \in ln["A"].alloc
    /\ ln["A"].node[o].state = "CONNECTED"
    /\ UNCHANGED usedConns
    /\ Handled(cmdDisconnect(ln["A"], o))

HandleDisconnect(c) ==
    /\ state = "LISTENING"
    /\ c \in ln["A"].incoming \ (Listeners \cup {PIPE})
    /\ UNCHANGED usedConns
    /\ Handled(handleDisconnect(ln["A"], c))

CmdAddListener(c) ==
    /\ state = "LISTENING"
    /\ c \in Listeners \ usedConns
    /\ usedConns' = usedConns \cup {c}
    /\ Handled(cmdAddListener(ln["A"], c))

CmdRemoveListener(c) ==
    /\ state = "LISTENING"
    /\ c \in Listeners
    /\ ln["A"].connectionNodes[c] = SELF
    /\ UNCHANGED usedConns
    /\ Handled(cmdRemoveListener(ln["A"], c))

(***************************************************************************)
(* Two LocalNodes A and B that connect to each other. Each has called      *)
(* connect( nodeID ) for the other, has been given the other's Node by a   *)
(* third node (GET_NODE_DATA_REPLY) and runs the loop of                   *)
(* _connect( nodeID, peer ). The nodes have no multicast description, so   *)
(* _connectMulticast and the CONNECT_ACK change nothing; replies arrive    *)
(* within the 10 s of waitRequest.                                         *)
(***************************************************************************)
HsConns == MadeBy("A") \cup MadeBy("B")

(* Node objects still referenced: a Node that is in no map, is no request  *)
(* data and is not held by the application is deleted with its last        *)
(* NodePtr.                                                                *)
Collect(n, held) ==
    LET live == ({held} \cup { n.nodes[id] : id \in AllIDs }
                        \cup { n.connectionNodes[c] : c \in Conns }
                        \cup { n.pendingConnect[c] : c \in Conns })
                   \cap (1 .. MaxNodes)
    IN [n EXCEPT !.alloc = live,
                 !.node = [o \in Objs |->
                             IF o = SELF \/ o \in live THEN n.node[o]
                             ELSE FreshNode]]

(* A connection of which both ends are closed and handled is gone. *)
Unmade == [made |-> FALSE, accepted |-> FALSE, toAcc |-> << >>,
           toInit |-> << >>, closed |-> {}]

Forget(nt) ==
    [c \in HsConns |-> IF nt[c].closed = Sides THEN Unmade ELSE nt[c]]

(* The connection Connection::create returns to side s. *)
NewConn(s) ==
    CHOOSE c \in MadeBy(s) :
        /\ ~net[c].made
        /\ \A c2 \in MadeBy(s) : ~net[c2].made => c[2] <= c2[2]

(* One pass of the loop of _connect( nodeID, peer ): --tries, then         *)
(* _connect( node ), which returns CONNECT_OK for a connected node and     *)
(* else creates a connection and calls _connect( node, connection ).       *)
ConnectLoop(s) ==
    /\ app[s].pc = "loop"
    /\ \E c \in MadeBy(s) : ~net[c].made
    /\ LET t == app[s].tries - 1
           nd == ln[s].node[app[s].node]
           c == NewConn(s)
       IN
       IF t = 0
       THEN /\ app' = [app EXCEPT
                         ![s].tries = t,
                         ![s].pc = "done",
                         ![s].result = IF IsConnected(nd) THEN app[s].node
                                       ELSE NoNode]
            /\ UNCHANGED << ln, net >>
       ELSE IF IsConnected(nd)
       THEN /\ app' = [app EXCEPT ![s].tries = t,
                                  ![s].pc = "done",
                                  ![s].result = app[s].node]
            /\ UNCHANGED << ln, net >>
       ELSE /\ app' = [app EXCEPT ![s].tries = t,
                                  ![s].pc = "wait",
                                  ![s].conn = c]
            /\ ln' = [ln EXCEPT ![s] = connect(ln[s], app[s].node, c)]
            /\ net' = [net EXCEPT ![c].made = TRUE,
                                  ![c].toAcc = << "CONNECT" >>]
    /\ UNCHANGED << tokenVars, usedConns, dispVars, laterVars >>

(* _handleConnect of side s for a connection the other side has made.      *)
PeerHandleConnect(s, c) ==
    /\ c \in MadeBy(Other(s))
    /\ net[c].made /\ ~net[c].accepted
    /\ LU \in ln[s].incoming
    /\ ln' = [ln EXCEPT ![s] = handleConnect(ln[s], c)]
    /\ net' = [net EXCEPT ![c].accepted = TRUE]
    /\ UNCHANGED << app, tokenVars, usedConns, dispVars, laterVars >>

(* _cmdConnect of side s for the CONNECT on c: the reply carries ZERO for  *)
(* a refusal, after which _removeConnection closes the connection, and     *)
(* the NodeID of s otherwise.                                              *)
PeerCmdConnect(s, c) ==
    /\ c \in ln[s].incoming \cap MadeBy(Other(s))
    /\ net[c].toAcc # << >>
    /\ ln[s].nodes[IdOf(Other(s))] = NoNode => CanCreate(ln[s])
    /\ LET n == cmdConnect(ln[s], c, IdOf(Other(s)))
           refused == c \notin n.incoming
       IN
       /\ ln' = [ln EXCEPT ![s] = Collect(n, app[s].node)]
       /\ net' = [net EXCEPT
                    ![c].toAcc = << >>,
                    ![c].toInit = Append(@, IF refused THEN ZERO
                                            ELSE IdOf(s)),
                    ![c].closed = IF refused THEN @ \cup {s} ELSE @]
    /\ UNCHANGED << app, tokenVars, usedConns, dispVars, laterVars >>

(* _cmdConnectReply of side s for the reply on c: serveRequest wakes the   *)
(* waitRequest of _connect( node, connection ) with true or false, and     *)
(* _removeConnection closes a connection that is not kept.                 *)
PeerCmdConnectReply(s, c) ==
    /\ c \in ln[s].incoming \cap MadeBy(s)
    /\ net[c].toInit # << >>
    /\ LET n == cmdConnectReply(ln[s], c, Head(net[c].toInit), "none") IN
       /\ ln' = [ln EXCEPT ![s] = Collect(n, app[s].node)]
       /\ net' = Forget([net EXCEPT
                    ![c].toInit = Tail(@),
                    ![c].closed = IF c \notin n.incoming THEN @ \cup {s}
                                  ELSE @])
       /\ app' = IF app[s].pc = "wait" /\ app[s].conn = c
                 THEN [app EXCEPT
                         ![s].pc = "served",
                         ![s].connected = n.connectionNodes[c] # NoNode]
                 ELSE app
    /\ UNCHANGED << tokenVars, usedConns, dispVars, laterVars >>

(* _connect( node, connection ) after waitRequest and the switch of the    *)
(* loop: CONNECT_OK returns the node; CONNECT_TRY_AGAIN sleeps and then    *)
(* takes the Node the NodeID map holds for the peer, if there is one.      *)
ConnectServed(s) ==
    /\ app[s].pc = "served"
    /\ LET found == ln[s].nodes[IdOf(Other(s))]
           held == IF found # NoNode THEN found ELSE app[s].node
       IN
       IF app[s].connected
       THEN /\ app' = [app EXCEPT ![s].pc = "done",
                                  ![s].result = app[s].node]
            /\ UNCHANGED ln
       ELSE /\ app' = [app EXCEPT ![s].pc = "loop", ![s].node = held]
            /\ ln' = [ln EXCEPT ![s] = Collect(ln[s], held)]
    /\ UNCHANGED << net, tokenVars, usedConns, dispVars, laterVars >>

(* _handleDisconnect of side s for a connection the other side has closed, *)
(* once s has read what was sent on it.                                    *)
PeerHandleDisconnect(s, c) ==
    /\ c \in ln[s].incoming \cap HsConns
    /\ Other(s) \in net[c].closed
    /\ (IF c \in MadeBy(s) THEN net[c].toInit ELSE net[c].toAcc) = << >>
    /\ ln' = [ln EXCEPT ![s] = Collect(handleDisconnect(ln[s], c),
                                       app[s].node)]
    /\ net' = Forget([net EXCEPT ![c].closed = @ \cup {s}])
    /\ UNCHANGED << app, tokenVars, usedConns, dispVars, laterVars >>

(* No connect() is running. *)
HsIdle ==
    /\ net = [c \in HsConns |-> Unmade]
    /\ app = [s \in Sides |-> [pc |-> "idle", tries |-> Tries, node |-> NoNode,
                               conn |-> NOCONN, connected |-> FALSE,
                               result |-> NoNode]]

(***************************************************************************)
(* Command dispatch of the receiver thread for the commands of one         *)
(* connection: _handleData, _dispatchCommand, dispatchCommand and          *)
(* _redispatchCommands. A command is NODE (its handler always takes it)    *)
(* or OBJECT for one object; the object store takes an OBJECT command      *)
(* when the object is mapped and defers it otherwise.                      *)
(***************************************************************************)
MaxCmds == 3         \* commands sent on the connection

Objects == {"x", "y"}
Kinds == {"NODE"} \cup Objects

(* The i-th command on the wire, of kind k. *)
WireCommand(i, k) ==
    [command |-> IF k = "NODE" THEN "NODE" ELSE "OBJECT", node |-> "peer",
     id |-> i, object |-> k]

(* ObjectStore::dispatchObjectCommand: false while the object is unmapped. *)
dispatchObjectCommand(c, m) == c.object \in m

(* LocalNode::dispatchCommand *)
dispatchCommand(c, m) ==
    IF c.command = "NODE" THEN TRUE ELSE dispatchObjectCommand(c, m)

(* The pending list with its i-th entry erased. *)
Erase(p, i) == SubSeq(p, 1, i - 1) \o SubSeq(p, i + 1, Len(p))

(* A redispatch that stops after the first command it hands over, while   *)
(* the list is still emptied of every command that would dispatch.        *)
Redispatched_once(p, m) ==
    IF \E i \in 1 .. Len(p) : dispatchCommand(p[i], m)
    THEN LET i == CHOOSE i \in 1 .. Len(p) :
                     /\ dispatchCommand(p[i], m)
                     /\ \A j \in 1 .. i - 1 : ~dispatchCommand(p[j], m)
         IN << p[i] >>
    ELSE << >>

(* LocalNode::_redispatchCommands on pending list p: the commands it       *)
(* hands over, in the order it does, while the first command of the list   *)
(* that dispatches is erased and the walk starts again.                    *)
RECURSIVE Redispatched(_, _)
Redispatched(p, m) ==
    IF \E i \in 1 .. Len(p) : dispatchCommand(p[i], m)
    THEN LET i == CHOOSE i \in 1 .. Len(p) :
                     /\ dispatchCommand(p[i], m)
                     /\ \A j \in 1 .. i - 1 : ~dispatchCommand(p[j], m)
         IN << p[i] >> \o Redispatched(Erase(p, i), m)
    ELSE << >>

(* and the list it leaves. *)
RECURSIVE StillPending(_, _)
StillPending(p, m) ==
    IF \E i \in 1 .. Len(p) : dispatchCommand(p[i], m)
    THEN LET i == CHOOSE i \in 1 .. Len(p) :
                     /\ dispatchCommand(p[i], m)
                     /\ \A j \in 1 .. i - 1 : ~dispatchCommand(p[j], m)
         IN StillPending(Erase(p, i), m)
    ELSE p

(* A loop that releases nothing. *)
ReleaseAll_none(rc, s) == rc

(* release() of every command of sequence s. *)
RECURSIVE ReleaseAll(_, _)
ReleaseAll(rc, s) ==
    IF s = << >> THEN rc ELSE ReleaseAll(Release(rc, Head(s)), Tail(s))

Ids(s) == [i \in 1 .. Len(s) |-> s[i].id]

(* A deferred command put in front of the pending list. *)
Defer_front(p, c) == << c >> \o p

(* pendingCommands.push_back( &command ) *)
Defer(p, c) == Append(p, c)

(* _handleData reads the next command off the connection and               *)
(* _dispatchCommand dispatches it: retain, then either release and         *)
(* redispatch, or redispatch and keep the command pending.                 *)
DispatchData ==
    /\ state = "LISTENING"
    /\ dWire # << >>
    /\ LET c == Head(dWire)
           again == Redispatched(pendingCommands, mapped)
           rest == StillPending(pendingCommands, mapped)
       IN
       /\ dWire' = Tail(dWire)
       /\ attempted' = Append(attempted, c.id)
       /\ IF dispatchCommand(c, mapped)
          THEN /\ refCount' = ReleaseAll(Release(Retain(refCount, c), c),
                                         again)
               /\ dispatched' = dispatched \o << c.id >> \o Ids(again)
               /\ pendingCommands' = rest
               /\ UNCHANGED deferred
          ELSE /\ refCount' = ReleaseAll(Retain(refCount, c), again)
               /\ dispatched' = dispatched \o Ids(again)
               /\ pendingCommands' = Defer(rest, c)
               /\ deferred' = deferred \cup {c.id}
    /\ UNCHANGED << mapped, tokenRest, mapVars, hsVars, laterVars >>

(* EVENT_INTERRUPT: the receiver thread runs _redispatchCommands.          *)
Interrupt ==
    /\ state = "LISTENING"
    /\ LET again == Redispatched(pendingCommands, mapped) IN
       /\ refCount' = ReleaseAll(refCount, again)
       /\ dispatched' = dispatched \o Ids(again)
       /\ pendingCommands' = StillPending(pendingCommands, mapped)
    /\ UNCHANGED << dWire, mapped, attempted, deferred, tokenRest, mapVars,
                    hsVars, laterVars >>

(* The application maps object x: from now on its commands are taken.      *)
MapObject(x) ==
    /\ state = "LISTENING"
    /\ x \notin mapped
    /\ mapped' = mapped \cup {x}
    /\ UNCHANGED << dWire, pendingCommands, dispatched, attempted, deferred,
                    tokenVars, mapVars, hsVars, laterVars >>

(* Nothing was received yet. *)
DispIdle ==
    /\ dWire = << >>
    /\ pendingCommands = << >>
    /\ mapped = {}
    /\ dispatched = << >>
    /\ attempted = << >>
    /\ deferred = {}

(***************************************************************************)
(* LocalNode::connect( nodeID ) called by application threads of side A    *)
(* for the NodeID of side B. The peers answer GET_NODE_DATA and CONNECT as *)
(* the environment chooses; no peer connects from its side.                *)
(***************************************************************************)
Threads == {"t1", "t2"}
NoThread == "none"
TargetID == IdOf("B")
PeerConn == << "u", 1 >>         \* the connection of the connected peer idC

(* lunchbox::ScopedWrite mutex( connectLock ) is entered when no thread    *)
(* holds the lock.                                                         *)
LockFree_always(l) == TRUE

LockFree(l) == l = NoThread

(* The Nodes getNodes( nodes ) returns: the connected ones, the LocalNode  *)
(* included.                                                               *)
getNodes(n) ==
    { n.nodes[id] : id \in AllIDs } \cap
        { o \in Objs : IsConnected(n.node[o]) }

(* The connected Node the NodeID map holds for TargetID, or NoNode: the    *)
(* loops of lines 833-838 and 852-857.                                     *)
ConnectedTarget(n) ==
    IF n.nodes[TargetID] # NoNode /\ IsConnected(n.node[n.nodes[TargetID]])
    THEN n.nodes[TargetID] ELSE NoNode

(* Node objects still referenced by a map or by a NodePtr of a thread; the *)
(* request data of a CONNECT is a plain pointer and keeps no Node alive.   *)
CollectHeld(n, held) ==
    LET live == (held \cup { n.nodes[id] : id \in AllIDs }
                      \cup { n.connectionNodes[c] : c \in Conns })
                   \cap (1 .. MaxNodes)
    IN [n EXCEPT !.alloc = live,
                 !.node = [o \in Objs |->
                             IF o = SELF \/ o \in live THEN n.node[o]
                             ELSE FreshNode]]

Held(cl) == { cl[t].node : t \in Threads }

(* The connection Connection::create returns: one that is not in the       *)
(* connection set.                                                         *)
FreeConns(n) == MadeBy("A") \ n.incoming

CreateConn(n) ==
    CHOOSE c \in FreeConns(n) : \A c2 \in FreeConns(n) : c[2] <= c2[2]

(* connect( nodeID ) returns r: the scoped lock is left. *)
Return(cl, t, r) ==
    /\ call' = [cl EXCEPT ![t].pc = "done", ![t].result = r,
                          ![t].node = NoNode]
    /\ connectLock' = NoThread

(* A thread calls connect( nodeID ) and reaches the lock. *)
CallConnect(t) ==
    /\ call[t].pc = "idle"
    /\ call' = [call EXCEPT ![t].pc = "lock"]
    /\ UNCHANGED << connectLock, nAttempts, outcomes, timedOut, ln >>
    /\ UNCHANGED nonCallVars

(* connect( nodeID ) from the lock to the first loop: the early out, or    *)
(* the copy of the connected nodes to ask.                                 *)
ConnectEnter(t) ==
    /\ call[t].pc = "lock"
    /\ LockFree(connectLock)
    /\ IF ConnectedTarget(ln["A"]) # NoNode
       THEN Return(call, t, ConnectedTarget(ln["A"]))
       ELSE /\ connectLock' = t
            /\ call' = [call EXCEPT ![t].pc = "peers",
                                    ![t].peers = getNodes(ln["A"])]
    /\ UNCHANGED << nAttempts, outcomes, timedOut, ln >>
    /\ UNCHANGED nonCallVars

(* The second loop of connect( nodeID ): _connect( nodeID, peer ) for the  *)
(* next peer up to waitRequest, and the last check when no peer is left.   *)
(* A Node the NodeID map holds for TargetID is connected here (the         *)
(* EQASSERT of line 878): no ID packet is handled while connect runs.      *)
ConnectPeer(t) ==
    /\ call[t].pc = "peers"
    /\ LET known == ln["A"].nodes[TargetID] IN
       IF call[t].peers = {}
       THEN Return(call, t, ConnectedTarget(ln["A"]))
       ELSE IF known # NoNode
       THEN Return(call, t, ConnectedTarget(ln["A"]))
       ELSE /\ \E p \in call[t].peers :
                  call' = [call EXCEPT ![t].pc = "data",
                                       ![t].asked = p,
                                       ![t].peers = @ \ {p}]
            /\ UNCHANGED connectLock
    /\ UNCHANGED << nAttempts, outcomes, timedOut, ln >>
    /\ UNCHANGED nonCallVars

(* _cmdGetNodeDataReply and _connect( nodeID, peer ) after waitRequest.    *)
(* found tells whether the peer that was asked knows the node; the         *)
(* LocalNode itself answers from its NodeID map, which does not hold it.   *)
CmdGetNodeDataReply(t, found) ==
    /\ call[t].pc = "data"
    /\ call[t].asked = SELF => ~found
    /\ LET n == ln["A"]
           known == n.nodes[TargetID]
       IN
       IF known # NoNode
       THEN /\ IF IsConnected(n.node[known])
               THEN Return(call, t, known)
               ELSE /\ call' = [call EXCEPT ![t].pc = "loop",
                                            ![t].node = known,
                                            ![t].tries = Tries]
                    /\ UNCHANGED connectLock
            /\ UNCHANGED ln
       ELSE IF ~found
       THEN /\ call' = [call EXCEPT ![t].pc = "peers"]
            /\ UNCHANGED << connectLock, ln >>
       ELSE /\ CanCreate(n)
            /\ ln' = [ln EXCEPT
                        !["A"].alloc = @ \cup {NewNode(n)},
                        !["A"].node[NewNode(n)] =
                            [FreshNode EXCEPT !.id = TargetID]]
            /\ call' = [call EXCEPT ![t].pc = "loop",
                                    ![t].node = NewNode(n),
                                    ![t].tries = Tries]
            /\ UNCHANGED connectLock
    /\ UNCHANGED << nAttempts, outcomes, timedOut >>
    /\ UNCHANGED nonCallVars

(* One pass of the loop of _connect( nodeID, peer ) up to waitRequest:     *)
(* --tries, then _connect( node ). reachable tells whether a connection to *)
(* the node can be created and connected; if not, _connect( node ) returns *)
(* CONNECT_UNREACHABLE and the pass ends with the look-up of the NodeID.   *)
CallLoop(t, reachable) ==
    /\ call[t].pc = "loop"
    /\ reachable => FreeConns(ln["A"]) # {}
    /\ LET n == ln["A"]
           left == call[t].tries - 1
           nd == n.node[call[t].node]
           known == n.nodes[TargetID]
       IN
       IF left = 0
       THEN /\ Return([call EXCEPT ![t].tries = left], t,
                      IF IsConnected(nd) THEN call[t].node ELSE NoNode)
            /\ ln' = [ln EXCEPT !["A"] =
                        CollectHeld(n, Held(call) \ {call[t].node})]
            /\ UNCHANGED << nAttempts, outcomes >>
       ELSE IF IsConnected(nd)
       THEN /\ Return([call EXCEPT ![t].tries = left], t, call[t].node)
            /\ outcomes' = [outcomes EXCEPT ![t] = @ \cup {"CONNECT_OK"}]
            /\ UNCHANGED << nAttempts, ln >>
       ELSE IF ~reachable
       THEN /\ call' = [call EXCEPT
                          ![t].tries = left,
                          ![t].node = IF known # NoNode THEN known ELSE @]
            /\ outcomes' = [outcomes EXCEPT
                              ![t] = @ \cup {"CONNECT_UNREACHABLE"}]
            /\ UNCHANGED << connectLock, nAttempts, ln >>
       ELSE /\ call' = [call EXCEPT ![t].tries = left,
                                    ![t].pc = "wait",
                                    ![t].conn = CreateConn(n)]
            /\ ln' = [ln EXCEPT
                        !["A"] = connect(n, call[t].node, CreateConn(n))]
            /\ nAttempts' = [nAttempts EXCEPT ![t] = @ + 1]
            /\ UNCHANGED << connectLock, outcomes >>
    /\ UNCHANGED timedOut
    /\ UNCHANGED nonCallVars

(* _cmdConnectReply for the reply to the CONNECT of thread t, with the     *)
(* NodeID it carries: serveRequest wakes the thread with true or false.    *)
CallCmdConnectReply(t, id) ==
    /\ call[t].pc = "wait"
    /\ LET n == cmdConnectReply(ln["A"], call[t].conn, id, "none") IN
       /\ ln' = [ln EXCEPT !["A"] = n]
       /\ call' = [call EXCEPT
                     ![t].pc = "served",
                     ![t].connected = n.connectionNodes[call[t].conn]
                                          # NoNode]
    /\ UNCHANGED << connectLock, nAttempts, outcomes, timedOut >>
    /\ UNCHANGED nonCallVars

(* _connect( node, connection ) after a served waitRequest, and the switch *)
(* and the look-up of the loop.                                            *)
CallServed(t) ==
    /\ call[t].pc = "served"
    /\ LET n == ln["A"]
           known == n.nodes[TargetID]
           next == IF known # NoNode THEN known ELSE call[t].node
       IN
       IF call[t].connected
       THEN /\ Return(call, t, call[t].node)
            /\ outcomes' = [outcomes EXCEPT ![t] = @ \cup {"CONNECT_OK"}]
            /\ UNCHANGED ln
       ELSE /\ call' = [call EXCEPT ![t].pc = "loop", ![t].node = next]
            /\ outcomes' = [outcomes EXCEPT
                              ![t] = @ \cup {"CONNECT_TRY_AGAIN"}]
            /\ ln' = [ln EXCEPT !["A"] =
                        CollectHeld(n, (Held(call) \ {call[t].node})
                                           \cup {next})]
            /\ UNCHANGED connectLock
    /\ UNCHANGED << nAttempts, timedOut >>
    /\ UNCHANGED nonCallVars

(* waitRequest of _connect( node, connection ) times out: it returns       *)
(* CONNECT_TIMEOUT and connect( nodeID ) returns 0.                        *)
CallTimeout(t) ==
    /\ call[t].pc = "wait"
    /\ Return(call, t, NoNode)
    /\ outcomes' = [outcomes EXCEPT ![t] = @ \cup {"CONNECT_TIMEOUT"}]
    /\ timedOut' = timedOut \cup { << call[t].conn, call[t].node >> }
    /\ ln' = [ln EXCEPT !["A"] =
                CollectHeld(ln["A"], Held(call) \ {call[t].node})]
    /\ UNCHANGED nAttempts
    /\ UNCHANGED nonCallVars

(* No thread has called connect( nodeID ). *)
CallIdle ==
    /\ connectLock = NoThread
    /\ call = [t \in Threads |->
                 [pc |-> "idle", peers |-> {}, asked |-> NoNode,
                  node |-> NoNode, tries |-> Tries, conn |-> NOCONN,
                  connected |-> FALSE, result |-> NoNode]]
    /\ nAttempts = [t \in Threads |-> 0]
    /\ outcomes = [t \in Threads |-> {}]
    /\ timedOut = {}

(***************************************************************************)
(* close() of the holder, which is side A.                                 *)
(***************************************************************************)
MaxRefusals == 1     \* calls of close() on a node that is not LISTENING

StopCommand == Command("STOP", HOLDER, 0)

(* The state _cmdStopRcv leaves the node in. *)
StopRcvState_closed == "CLOSED"

StopRcvState == "CLOSING"

(* LocalNode::close up to the join: refuse unless LISTENING, else send     *)
(* the NodeStopPacket to the node itself.                                  *)
Close ==
    /\ closePc = "idle"
    /\ state = "LISTENING"
    /\ closePc' = "sent"
    /\ UNCHANGED << now, timeout, state, wire, cmdThreadQueue, sendToken,
                    lastSendToken, sendTokenQueue, refCount, replies,
                    appPhase, appToken, reqTime, nAcquires, relCalls, granted,
                    unanswered, timeoutElapsed, foreignRelease >>
    /\ UNCHANGED nonTokenVars

(* LocalNode::close on a node that is not LISTENING: return false. *)
CloseRefused ==
    /\ state # "LISTENING"
    /\ refusals < MaxRefusals
    /\ refusals' = refusals + 1
    /\ UNCHANGED << tokenVars, mapVars, hsVars, dispVars, callVars, discVars,
                    streamVars,
                    lifeVars, childVars, ioVars, rcVars, rdVars,
                rtVars, hdVars, lsVars >>

(* Receiver thread: _handleData reads the stop packet, _dispatchCommand    *)
(* retains it and runs LocalNode::_cmdStopRcv inline, which sets CLOSING,  *)
(* rewrites the command to STOP_CMD and dispatches it again (retain, push  *)
(* to the command thread queue, release); the outer dispatch releases.     *)
CmdStopRcv ==
    /\ closePc = "sent"
    /\ state = "LISTENING"
    /\ state' = StopRcvState
    /\ closePc' = "joining"
    /\ cmdThreadQueue' = Append(cmdThreadQueue, StopCommand)
    /\ refCount' = Release(Release(Retain(Retain(Retain(refCount,
                       StopCommand), StopCommand), StopCommand),
                       StopCommand), StopCommand)
    /\ UNCHANGED << now, timeout, wire, sendToken, lastSendToken,
                    sendTokenQueue, replies, appPhase, appToken, reqTime,
                    nAcquires, relCalls, granted, unanswered, timeoutElapsed,
                    foreignRelease >>
    /\ UNCHANGED nonTokenVars

(* LocalNode::_cmdStopCmd, run by the command thread, which then stops     *)
(* (CommandThread::stopRunning is isClosed).                               *)
CmdStopCmd ==
    /\ state = "CLOSING"
    /\ cmdThreadQueue # << >>
    /\ Head(cmdThreadQueue).command = "STOP"
    /\ cmdThreadQueue' = Tail(cmdThreadQueue)
    /\ state' = "CLOSED"
    /\ refCount' = Release(refCount, Head(cmdThreadQueue))
    /\ UNCHANGED << now, timeout, closePc, wire, sendToken, lastSendToken,
                    sendTokenQueue, replies, appPhase, appToken, reqTime,
                    nAcquires, relCalls, granted, unanswered, timeoutElapsed,
                    foreignRelease >>
    /\ UNCHANGED nonTokenVars

(* _runReceiverThread after its loop, up to the join of the command        *)
(* thread: every pending command is released.                              *)
ReceiverLeave ==
    /\ closePc = "joining"
    /\ state # "LISTENING"
    /\ closePc' = "leaving"
    /\ refCount' = ReleaseAll(refCount, pendingCommands)
    /\ UNCHANGED << now, timeout, state, wire, cmdThreadQueue, sendToken,
                    lastSendToken, sendTokenQueue, replies, appPhase,
                    appToken, reqTime, nAcquires, relCalls, granted,
                    unanswered, timeoutElapsed, foreignRelease >>
    /\ UNCHANGED nonTokenVars

(* The end of _runReceiverThread once the command thread, which stops when *)
(* the node is CLOSED, is joined: the object store and the pending list    *)
(* are cleared.                                                            *)
ReceiverExit ==
    /\ closePc = "leaving"
    /\ state = "CLOSED"
    /\ closePc' = "exited"
    /\ pendingCommands' = << >>
    /\ mapped' = {}
    /\ UNCHANGED << dWire, dispatched, attempted, deferred >>
    /\ UNCHANGED << now, timeout, state, wire, cmdThreadQueue, sendToken,
                    lastSendToken, sendTokenQueue, refCount, replies,
                    appPhase, appToken, reqTime, nAcquires, relCalls, granted,
                    unanswered, timeoutElapsed, foreignRelease >>
    /\ UNCHANGED << mapVars, hsVars, laterVars >>

(* The loop of LocalNode::_cleanup over the connections cs still in the    *)
(* set: the Node a connection is mapped to is closed and erased from the   *)
(* NodeID map, the connection is unmapped and removed.                     *)
RECURSIVE CleanupLoop(_, _)
CleanupLoop(n, cs) ==
    IF cs = {} THEN n
    ELSE LET c == CHOOSE c \in cs : TRUE
             o == n.connectionNodes[c]
             closed == IF o = NoNode THEN n
                       ELSE [n EXCEPT
                               !.node[o].state = "CLOSED",
                               !.node[o].outMulticast = NOCONN,
                               !.node[o].outgoing = NOCONN,
                               !.node[o].multicasts = {},
                               !.nodes[n.node[o].id] = NoNode]
         IN CleanupLoop([closed EXCEPT !.connectionNodes[c] = NoNode,
                                       !.incoming = @ \ {c}],
                        cs \ {c})

(* A clean-up without the loop over the connections. *)
cleanup_noLoop(n) ==
    [n EXCEPT !.incoming = @ \ {PIPE},
              !.connectionNodes = [c \in Conns |-> NoNode],
              !.nodes = [id \in AllIDs |-> NoNode]]

(* LocalNode::_cleanup: the pipe connection of the node goes first, then   *)
(* the loop, then both maps are cleared.                                   *)
cleanup(n) ==
    LET self == [n EXCEPT !.node[SELF].multicasts = {},
                          !.incoming = @ \ {PIPE},
                          !.connectionNodes[PIPE] = NoNode,
                          !.node[SELF].outMulticast = NOCONN,
                          !.node[SELF].outgoing = NOCONN]
        looped == CleanupLoop(self, self.incoming)
    IN [looped EXCEPT !.connectionNodes = [c \in Conns |-> NoNode],
                      !.nodes = [id \in AllIDs |-> NoNode]]

(* close() after the join of the receiver thread: _cleanup, return true.   *)
CloseReturn ==
    /\ closePc = "exited"
    /\ state = "CLOSED"
    /\ closePc' = "returned"
    /\ ln' = [ln EXCEPT !["A"] = cleanup(ln["A"])]
    /\ UNCHANGED << now, timeout, state, wire, cmdThreadQueue, sendToken,
                    lastSendToken, sendTokenQueue, refCount, replies,
                    appPhase, appToken, reqTime, nAcquires, relCalls, granted,
                    unanswered, timeoutElapsed, foreignRelease >>
    /\ UNCHANGED << usedConns, hsVars, dispVars, laterVars >>

(* RequestHandler::hasPendingRequests: a request is registered while its   *)
(* thread waits in acquireSendToken, and for a CONNECT that was sent,      *)
(* until it is served.                                                     *)
hasPendingRequests ==
    \/ \E p \in Peers : appPhase[p] = "waiting"
    \/ \E c \in Conns : ln["A"].pendingConnect[c] # NoNode

(* close() was not called on a node that is not LISTENING. *)
CloseIdle == refusals = 0

(***************************************************************************)
(* LocalNode::disconnect( node ) called by an application thread of side   *)
(* A, while the receiver thread handles what its peers send.               *)
(***************************************************************************)
Returned(o, r, s) == [pc |-> "returned", node |-> o, result |-> r, sent |-> s]

(* disconnect( node ) up to waitRequest: the two early returns, or the     *)
(* DISCONNECT packet is sent to the node itself with the Node as request   *)
(* data.                                                                   *)
DisconnectCall(o) ==
    /\ disc.pc \in {"idle", "returned"}
    /\ o = NoNode \/ o \in ln["A"].alloc
    /\ disc' = IF o = NoNode \/ state # "LISTENING"
               THEN Returned(o, FALSE, FALSE)
               ELSE IF ln["A"].node[o].state # "CONNECTED"
               THEN Returned(o, TRUE, FALSE)
               ELSE [pc |-> "wait", node |-> o, result |-> FALSE,
                     sent |-> TRUE]
    /\ UNCHANGED << tokenVars, mapVars, hsVars, dispVars, callVars,
                    closeVars, streamVars,
                    lifeVars, childVars, ioVars, rcVars, rdVars,
                rtVars, hdVars, lsVars >>

(* The receiver thread handles the DISCONNECT packet: _cmdDisconnect, then *)
(* serveRequest.                                                           *)
DisconnectHandled ==
    /\ disc.pc = "wait"
    /\ state = "LISTENING"
    /\ ln' = [ln EXCEPT !["A"] = cmdDisconnect(ln["A"], disc.node)]
    /\ disc' = [disc EXCEPT !.pc = "served"]
    /\ UNCHANGED << tokenVars, usedConns, hsVars, dispVars, callVars,
                    closeVars, streamVars,
                    lifeVars, childVars, ioVars, rcVars, rdVars,
                rtVars, hdVars, lsVars >>

(* disconnect( node ) after waitRequest: return true. *)
DisconnectReturn ==
    /\ disc.pc = "served"
    /\ disc' = [disc EXCEPT !.pc = "returned", !.result = TRUE]
    /\ UNCHANGED << tokenVars, mapVars, hsVars, dispVars, callVars,
                    closeVars, streamVars,
                    lifeVars, childVars, ioVars, rcVars, rdVars,
                rtVars, hdVars, lsVars >>

(* disconnect( node ) was not called. *)
DiscIdle ==
    disc = [pc |-> "idle", node |-> NoNode, result |-> FALSE, sent |-> FALSE]

(***************************************************************************)
(* ObjectDataIStream: addDataPacket and getNextCommand on one stream. The  *)
(* k-th command handed to addDataPacket is command k; its packet is        *)
(* packets[k].packet.                                                      *)
(***************************************************************************)
MaxPackets == 3      \* calls of addDataPacket
MaxGets == 5         \* calls of getNextCommand

NoCommand == 0       \* a null Command*
Versions == {1, 2}
Sequences == 0 .. MaxPackets - 1
Packets == [sequence : Sequences, version : Versions, last : BOOLEAN]

(* A stream constructed without the null entry. *)
Constructed_empty == << >>

(* ObjectDataIStream::ObjectDataIStream: _commands.push_back( 0 ) *)
Constructed == << NoCommand >>

(* The assertions of addDataPacket for packet p, in a build that has them. *)
ChecksPass(cmds, pk, p) ==
    IF Len(cmds) < 2
    THEN p.sequence = 0
    ELSE LET previous == pk[cmds[Len(cmds)]].packet IN
         /\ p.sequence = previous.sequence + 1
         /\ p.version = previous.version

(* A stream that every packet makes ready. *)
IsLast_always(p) == TRUE

(* if( packet->last ) of addDataPacket *)
IsLast(p) == p.last

(* ObjectDataIStream::addDataPacket: with NDEBUG nothing is checked; the   *)
(* command is retained and pushed, and a last packet makes the stream      *)
(* ready. A failed assertion aborts.                                       *)
AddDataPacket(p) ==
    /\ ~fatal
    /\ Len(packets) < MaxPackets
    /\ LET k == Len(packets) + 1 IN
       IF ~ndebug /\ ~ChecksPass(commands, packets, p)
       THEN /\ fatal' = TRUE
            /\ packets' = Append(packets, [packet |-> p, accepted |-> FALSE])
            /\ UNCHANGED << commands, ready, sRefs >>
       ELSE /\ packets' = Append(packets, [packet |-> p, accepted |-> TRUE])
            /\ sRefs' = [sRefs EXCEPT ![k] = @ + 1]
            /\ commands' = Append(commands, k)
            /\ ready' = (ready \/ IsLast(p))
            /\ UNCHANGED fatal
    /\ UNCHANGED << ndebug, returned, earlyGet >>
    /\ UNCHANGED nonStreamVars

(* ObjectDataIStream::getNextCommand, which _getNextBuffer calls for the   *)
(* next buffer: the front entry is released and popped and the new front   *)
(* is returned, null if there is none.                                     *)
GetNextCommand ==
    /\ ~fatal
    /\ Len(returned) < MaxGets
    /\ IF commands = << >>
       THEN /\ returned' = Append(returned, NoCommand)
            /\ UNCHANGED << commands, sRefs >>
       ELSE /\ sRefs' = IF Head(commands) # NoCommand
                        THEN [sRefs EXCEPT ![Head(commands)] = @ - 1]
                        ELSE sRefs
            /\ commands' = Tail(commands)
            /\ returned' = Append(returned,
                                  IF Tail(commands) = << >> THEN NoCommand
                                  ELSE Head(Tail(commands)))
    /\ earlyGet' = (earlyGet \/ ~ready)
    /\ UNCHANGED << ndebug, ready, fatal, packets >>
    /\ UNCHANGED nonStreamVars

(* A stream as constructed. *)
StreamNew ==
    /\ commands = Constructed
    /\ ready = FALSE
    /\ fatal = FALSE
    /\ packets = << >>
    /\ returned = << >>
    /\ sRefs = [k \in 1 .. MaxPackets |-> 0]
    /\ earlyGet = FALSE

StreamIdle == ndebug = FALSE /\ StreamNew

(***************************************************************************)
(* The life of the stream: reset(), the copy constructor and the           *)
(* destructor. Copies take commands and are destroyed.                     *)
(***************************************************************************)
MaxCopies == 1       \* copies made of the stream

NoReset == [packets |-> -1, returned |-> -1]
Gone == << -1 >>                 \* a destroyed copy
NoCopy == << -2 >>               \* a copy not made yet

(* release() of every command of deque cmds that is not null. *)
RECURSIVE ReleaseDeque(_, _)
ReleaseDeque(rc, cmds) ==
    IF cmds = << >> THEN rc
    ELSE ReleaseDeque(IF Head(cmds) # NoCommand
                      THEN [rc EXCEPT ![Head(cmds)] = @ - 1] ELSE rc,
                      Tail(cmds))

(* A copy that shares the commands without retaining them. *)
CopyRetain_none(rc, cmds) == rc

(* The loop of the copy constructor: retain() of every command of the      *)
(* copied deque that is not null.                                          *)
RECURSIVE CopyRetain(_, _)
CopyRetain(rc, cmds) ==
    IF cmds = << >> THEN rc
    ELSE CopyRetain(IF Head(cmds) # NoCommand
                    THEN [rc EXCEPT ![Head(cmds)] = @ + 1] ELSE rc,
                    Tail(cmds))

(* addDataPacket and getNextCommand on the stream while it exists. *)
LiveAddDataPacket(p) == ~destroyed /\ AddDataPacket(p)

LiveGetNextCommand == ~destroyed /\ GetNextCommand

(* ObjectDataIStream::reset: every command of the deque is released and    *)
(* popped, and the version is made invalid, which ends ready.              *)
Reset ==
    /\ ~fatal /\ ~destroyed
    /\ sRefs' = ReleaseDeque(sRefs, commands)
    /\ commands' = << >>
    /\ ready' = FALSE
    /\ earlyGet' = FALSE
    /\ resetAt' = [packets |-> Len(packets), returned |-> Len(returned)]
    /\ UNCHANGED << ndebug, fatal, packets, returned, copies, destroyed >>
    /\ UNCHANGED nonLifeVars

(* ObjectDataIStream::~ObjectDataIStream: reset(). *)
Destroy ==
    /\ ~fatal /\ ~destroyed
    /\ sRefs' = ReleaseDeque(sRefs, commands)
    /\ commands' = << >>
    /\ ready' = FALSE
    /\ destroyed' = TRUE
    /\ UNCHANGED << ndebug, fatal, packets, returned, earlyGet, resetAt,
                    copies >>
    /\ UNCHANGED nonLifeVars

(* The copy constructor, from the stream. *)
CopyConstruct(i) ==
    /\ ~fatal /\ ~destroyed
    /\ copies[i] = NoCopy
    /\ \A j \in 1 .. i - 1 : copies[j] # NoCopy
    /\ copies' = [copies EXCEPT ![i] = commands]
    /\ sRefs' = CopyRetain(sRefs, commands)
    /\ UNCHANGED << ndebug, commands, ready, fatal, packets, returned,
                    earlyGet, resetAt, destroyed >>
    /\ UNCHANGED nonLifeVars

(* getNextCommand on copy i, which has a command to move past. *)
CopyGetNextCommand(i) ==
    /\ ~fatal
    /\ copies[i] \notin {NoCopy, Gone, << >>}
    /\ sRefs' = IF Head(copies[i]) # NoCommand
                THEN [sRefs EXCEPT ![Head(copies[i])] = @ - 1]
                ELSE sRefs
    /\ copies' = [copies EXCEPT ![i] = Tail(@)]
    /\ UNCHANGED << ndebug, commands, ready, fatal, packets, returned,
                    earlyGet, resetAt, destroyed >>
    /\ UNCHANGED nonLifeVars

(* The destructor of copy i. *)
CopyDestroy(i) ==
    /\ ~fatal
    /\ copies[i] \notin {NoCopy, Gone}
    /\ sRefs' = ReleaseDeque(sRefs, copies[i])
    /\ copies' = [copies EXCEPT ![i] = Gone]
    /\ UNCHANGED << ndebug, commands, ready, fatal, packets, returned,
                    earlyGet, resetAt, destroyed >>
    /\ UNCHANGED nonLifeVars

(* The stream was not reset, copied or destroyed. *)
LifeIdle ==
    /\ resetAt = NoReset
    /\ copies = [i \in 1 .. MaxCopies |-> NoCopy]
    /\ destroyed = FALSE

(***************************************************************************)
(* DataIStream::deserializeChildren (co/dataIStream.h).                    *)
(*                                                                         *)
(* A child is a handle: NullChild for a null pointer, 10 + i for the child *)
(* of old_ with identifier i, 20 + k for the child that object->create     *)
(* makes for the k-th ObjectVersion. UUID::ZERO is the identifier 0.       *)
(***************************************************************************)
MaxOld == 3           \* children the owner has before the call
MaxVersions == 4      \* ObjectVersions in the serialized list

NullChild == 0
UUID_ZERO == 0
VERSION_HEAD == 99

OldChildren == { 10 + i : i \in 1 .. MaxOld }
NewChild(k) == 20 + k

(* co::Object::getID of a child of old_ *)
getID(child) == child - 10

(* The version the sender serializes for the child with identifier id. *)
VersionOf(id) == 100 + id

(* The identifiers the sender may serialize: those of MaxOld children      *)
(* the receiver may have, one it does not have, and ZERO.                  *)
Identifiers == (0 .. MaxOld + 1) \ {MaxOld}

ObjectVersion(id) == [identifier |-> id, version |-> VersionOf(id)]

(* Sequences of at most n elements of S in which no element other than     *)
(* the given one occurs twice.                                             *)
RECURSIVE DistinctSeqs(_, _, _)
DistinctSeqs(S, free, n) ==
    IF n = 0 THEN { << >> }
    ELSE LET shorter == DistinctSeqs(S, free, n - 1)
         IN  shorter \cup
             UNION { { Append(q, e) :
                         e \in { x \in S :
                                   x = free \/ \A i \in 1 .. Len(q) :
                                                  q[i] # x } } :
                     q \in { t \in shorter : Len(t) = n - 1 } }

(* The vectors of children an owner can hold: every child once, and null   *)
(* slots (a result of deserializeChildren has one for every ZERO).         *)
ChildVectors == DistinctSeqs(OldChildren \cup {NullChild}, NullChild, MaxOld)

(* The lists serializeChildren writes: one ObjectVersion for every child   *)
(* of the sender, ZERO for a child that is not attached.                   *)
ObjectVersionLists ==
    { [k \in 1 .. Len(q) |-> ObjectVersion(q[k])] :
        q \in DistinctSeqs(Identifiers, UUID_ZERO, MaxVersions) }

(* What the read of a null pointer in ObjectFinder can do: stop the        *)
(* process, or yield an identifier that differs from the one searched.     *)
NullReads == {"fault", "differs"}

(* A find_if that finds no child. *)
FindIf_none(old, id, j, nullRead) == 0

(* stde::find_if( old, ObjectFinder( id )): the index of the first child   *)
(* with the identifier, 0 for old.end(), -1 when the process was stopped.  *)
RECURSIVE FindIf(_, _, _, _)
FindIf(old, id, j, nullRead) ==
    IF j > Len(old) THEN 0
    ELSE IF old[j] = NullChild
         THEN IF nullRead = "fault" THEN -1
              ELSE FindIf(old, id, j + 1, nullRead)
    ELSE IF getID(old[j]) = id THEN j
    ELSE FindIf(old, id, j + 1, nullRead)

(* A deserializeChildren that reads old_ after result.clear(). *)
Snapshot_afterClear(oldArg, aliased) == IF aliased THEN << >> ELSE oldArg

(* std::vector< C* > old = old_;  taken before result.clear() *)
Snapshot(oldArg, aliased) == oldArg

(* The loop over the versions, from the k-th on; st holds the local        *)
(* vector old, result, the calls made and the position.                    *)
RECURSIVE Rebuild(_, _, _, _, _, _)
Rebuild(st, vs, k, master, nullRead, nd) ==
    IF k > Len(vs) THEN st
    ELSE IF vs[k].identifier = UUID_ZERO
         THEN Rebuild([st EXCEPT !.result = Append(@, NullChild)],
                      vs, k + 1, master, nullRead, nd)
    ELSE LET j == FindIf(st.old, vs[k].identifier, 1, nullRead)
         IN  IF j = -1 THEN [st EXCEPT !.pc = "fault"]
             ELSE IF j = 0
                  THEN IF master /\ ~nd
                       THEN [st EXCEPT !.pc = "assert"]
                       ELSE Rebuild(
                              [st EXCEPT
                                 !.mapCalls = Append(@, << NewChild(k),
                                                           vs[k] >>),
                                 !.result = Append(@, NewChild(k))],
                              vs, k + 1, master, nullRead, nd)
             ELSE Rebuild(
                    [st EXCEPT
                       !.old = Erase(@, j),
                       !.syncs = Append(@, << st.old[j],
                                              IF master THEN VERSION_HEAD
                                              ELSE vs[k].version >>),
                       !.result = Append(@, st.old[j])],
                    vs, k + 1, master, nullRead, nd)

(* The loop over the removed children: the calls it makes, in order. *)
RECURSIVE Remove(_, _, _)
Remove(old, att, childMaster) ==
    IF old = << >> THEN << >>
    ELSE LET child == old[Len(old)]
             rest == Remove(SubSeq(old, 1, Len(old) - 1), att, childMaster)
         IN  IF child = NullChild THEN rest
             ELSE (IF child \in att /\ ~childMaster
                   THEN << << "unmapObject", child >> >> ELSE << >>)
                  \o << << "release", child >> >> \o rest

(* The function up to the loop over the removed children. *)
Rebuilt(oldArg, vs, master, aliased, nullRead, nd) ==
    Rebuild([old |-> Snapshot(oldArg, aliased), result |-> << >>,
             syncs |-> << >>, mapCalls |-> << >>, pc |-> "run"],
            vs, 1, master, nullRead, nd)

(* The whole function. *)
deserializeChildren(o, vs, master, aliased, att, cm, nullRead, nd) ==
    LET st == Rebuilt(o, vs, master, aliased, nullRead, nd)
    IN  [result |-> st.result, syncs |-> st.syncs, mapCalls |-> st.mapCalls,
         removals |-> IF st.pc = "run" THEN Remove(st.old, att, cm)
                      ELSE << >>,
         pc |-> IF st.pc = "run" THEN "returned" ELSE st.pc]

(* The children the loop over the removed children asks isAttached(). *)
Asked(oldArg, vs, master, aliased, nullRead, nd) ==
    LET st == Rebuilt(oldArg, vs, master, aliased, nullRead, nd)
    IN  IF st.pc = "run"
        THEN { st.old[i] : i \in 1 .. Len(st.old) } \ {NullChild}
        ELSE {}

(* One call, in a build with ( nd ) or without NDEBUG, on children of      *)
(* which those in att are attached.                                        *)
DeserializeChildren ==
    /\ dcPc = "call"
    /\ \E nullRead \in NullReads, nd \in BOOLEAN :
         \E att \in SUBSET Asked(old_, versions, isMaster, alias, nullRead,
                                 nd),
            childMaster \in BOOLEAN :
           LET r == deserializeChildren(old_, versions, isMaster, alias,
                                        att, childMaster, nullRead, nd)
           IN  /\ result' = r.result
               /\ syncs' = r.syncs
               /\ mapCalls' = r.mapCalls
               /\ removals' = r.removals
               /\ attached' = att
               /\ childIsMaster' = childMaster
               /\ dcPc' = r.pc
    /\ UNCHANGED << old_, versions, isMaster, alias >>
    /\ UNCHANGED << tokenVars, mapVars, hsVars, dispVars, callVars,
                    closeVars, discVars, streamVars, lifeVars, ioVars,
                    rcVars, rdVars,
                rtVars, hdVars, lsVars >>

(* No call of deserializeChildren is made. *)
ChildIdle ==
    /\ old_ = << >> /\ versions = << >>
    /\ isMaster = FALSE /\ alias = FALSE
    /\ result = << >> /\ syncs = << >> /\ mapCalls = << >>
    /\ removals = << >> /\ attached = {} /\ childIsMaster = FALSE
    /\ dcPc = "none"

(***************************************************************************)
(* The data stream test (tests/dataStream.cpp) and the input operators of  *)
(* co/dataIStream.h.                                                       *)
(*                                                                         *)
(* A value is its object representation, a sequence of bytes: operator >>  *)
(* copies sizeof( value ) bytes into the value. The sender's DataOStream   *)
(* collects the bytes of its write operations and hands them to sendData   *)
(* between any two of them; the receiver's DataIStream reads from one      *)
(* buffer at a time.                                                       *)
(***************************************************************************)
MaxDoubles == 2       \* CONTAINER_SIZE of the test
MaxText == 2          \* length of the message of the test

SizeofUint64 == 8
OutsideByte == 256    \* a byte that is not part of any buffer

(* The object representations of 42, 43.0f, 44.0 and of the doubles        *)
(* 0.0, 1.0, 2.0, ... on the little-endian host of the test.               *)
IntFoo == << 42, 0, 0, 0 >>
FloatFoo == << 0, 0, 44, 66 >>
DoubleFoo == << 0, 0, 0, 0, 0, 0, 70, 64 >>
DoubleOf(i) ==
    IF i = 0 THEN << 0, 0, 0, 0, 0, 0, 0, 0 >>
    ELSE IF i = 1 THEN << 0, 0, 0, 0, 0, 0, 240, 63 >>
    ELSE << 0, 0, 0, 0, 0, 0, i - 2, 64 >>

(* The messages: prefixes of "So long, and thanks for all the fish". *)
Messages == { SubSeq(<< 83, 111, 32, 108 >>, 1, n) : n \in 0 .. MaxText }

(* A uint64 as its n bytes, and back. *)
RECURSIVE Encode(_, _)
Encode(v, n) == IF n = 0 THEN << >>
                ELSE << v % 256 >> \o Encode(v \div 256, n - 1)

RECURSIVE Decode(_)
Decode(b) == IF b = << >> THEN 0 ELSE Head(b) + 256 * Decode(Tail(b))

RECURSIVE Flatten(_)
Flatten(q) == IF q = << >> THEN << >> ELSE Head(q) \o Flatten(Tail(q))

(* The write operations of Sender::run, in order; a vector and a text are  *)
(* a write of the number of elements and, when there are any, one of the   *)
(* elements.                                                               *)
WriteOps(n, msg) ==
    << IntFoo, FloatFoo, DoubleFoo, Encode(n, SizeofUint64) >>
    \o (IF n > 0 THEN << Flatten([i \in 1 .. n |-> DoubleOf(i - 1)]) >>
        ELSE << >>)
    \o << Encode(Len(msg), SizeofUint64) >>
    \o (IF msg # << >> THEN << msg >> ELSE << >>)

(* The state of the DataIStream as a record. *)
Reader == [queue |-> rcvQueue, input |-> input, position |-> position,
           err |-> ioErr]

(* A DataIStream that never gets the next buffer. *)
checkBuffer_stay(rs) == rs

(* _checkBuffer: gets the next buffer when the current one has no data     *)
(* left ( getNextBuffer pops it off the queue of commands ).               *)
checkBuffer(rs) ==
    IF rs.position < Len(rs.input) \/ rs.queue = << >> THEN rs
    ELSE [rs EXCEPT !.queue = Tail(@), !.input = Head(rs.queue),
                    !.position = 0]

(* getRemainingBufferSize: the stream after the call and the size. *)
getRemainingBufferSize(rs) ==
    LET c == checkBuffer(rs)
    IN  [rs |-> c, size |-> Len(c.input) - c.position]

(* getRemainingBuffer( size ): the bytes the returned pointer points to,   *)
(* advancing the buffer, or a null pointer and the buffer unchanged.       *)
getRemainingBuffer(rs, size) ==
    LET c == checkBuffer(rs)
    IN  IF size > Len(c.input) - c.position
        THEN [rs |-> c, null |-> TRUE, bytes |-> << >>]
        ELSE [rs |-> [c EXCEPT !.position = @ + size], null |-> FALSE,
              bytes |-> SubSeq(c.input, c.position + 1, c.position + size)]

(* _read( data, size ): copies size bytes of the current buffer. *)
read(rs, size) ==
    LET p == getRemainingBuffer(rs, size)
    IN  IF p.null THEN [rs |-> [p.rs EXCEPT !.err = "read"], bytes |-> << >>]
        ELSE [rs |-> p.rs, bytes |-> p.bytes]

(* operator >> ( T& value ) for a plain value of n bytes *)
ReadPlain(rs, n) == read(rs, n)

(* _readFlatVector for a vector of doubles *)
readFlatVector(rs) ==
    LET r == ReadPlain(rs, SizeofUint64)
        nElems == Decode(r.bytes)
    IN  IF r.rs.err # "none" THEN r
        ELSE IF nElems > 0 THEN read(r.rs, nElems * 8)
        ELSE [rs |-> r.rs, bytes |-> << >>]

(* What str.assign( 0, nElems ) can do: stop the process, or copy nElems   *)
(* bytes from outside the buffer.                                          *)
NullAssigns == {"fault", "copies"}

(* operator >> ( std::string& str ) *)
ReadString(rs, nd, nullAssign) ==
    LET r == ReadPlain(rs, SizeofUint64)
        nElems == Decode(r.bytes)
        remaining == getRemainingBufferSize(r.rs)
    IN  IF r.rs.err # "none" THEN r
        ELSE IF ~nd /\ ~(nElems <= remaining.size)
             THEN [rs |-> [remaining.rs EXCEPT !.err = "assert"],
                   bytes |-> << >>]
        ELSE IF nElems = 0 THEN [rs |-> remaining.rs, bytes |-> << >>]
        ELSE LET p == getRemainingBuffer(remaining.rs, nElems)
             IN  IF ~p.null THEN [rs |-> p.rs, bytes |-> p.bytes]
                 ELSE IF nullAssign = "fault"
                      THEN [rs |-> [p.rs EXCEPT !.err = "fault"],
                            bytes |-> << >>]
                 ELSE [rs |-> p.rs,
                       bytes |-> [i \in 1 .. nElems |-> OutsideByte]]

(* stream << value: the next write operation of Sender::run. *)
Write ==
    /\ ~disabled
    /\ wpc < Len(WriteOps(nDoubles, message))
    /\ obuf' = obuf \o WriteOps(nDoubles, message)[wpc + 1]
    /\ wpc' = wpc + 1
    /\ UNCHANGED << nDoubles, message, ioNdebug, disabled, pipe, rcvQueue,
                    receiving, input, position, rpc, got, ioErr >>
    /\ UNCHANGED nonIoVars

(* sendData( buffer, size, false ): the data written so far is sent. *)
SendData ==
    /\ ~disabled
    /\ obuf # << >>
    /\ pipe' = Append(pipe, [data |-> obuf, last |-> FALSE])
    /\ obuf' = << >>
    /\ UNCHANGED << nDoubles, message, ioNdebug, wpc, disabled, rcvQueue,
                    receiving, input, position, rpc, got, ioErr >>
    /\ UNCHANGED nonIoVars

(* stream.disable(): the remaining data is sent, flagged last. *)
Disable ==
    /\ ~disabled
    /\ wpc = Len(WriteOps(nDoubles, message))
    /\ pipe' = Append(pipe, [data |-> obuf, last |-> TRUE])
    /\ obuf' = << >>
    /\ disabled' = TRUE
    /\ UNCHANGED << nDoubles, message, ioNdebug, wpc, rcvQueue, receiving,
                    input, position, rpc, got, ioErr >>
    /\ UNCHANGED nonIoVars

(* One pass of the loop of main: a command is received and added. *)
AddDataCommand ==
    /\ receiving
    /\ pipe # << >>
    /\ rcvQueue' = Append(rcvQueue, Head(pipe).data)
    /\ receiving' = ~Head(pipe).last
    /\ pipe' = Tail(pipe)
    /\ UNCHANGED << nDoubles, message, ioNdebug, wpc, obuf, disabled, input,
                    position, rpc, got, ioErr >>
    /\ UNCHANGED nonIoVars

(* The next stream >> value of main: foo, fFoo, dFoo, doubles, message. *)
ReadNext ==
    /\ ~receiving
    /\ rpc < 5
    /\ ioErr = "none"
    /\ \E nullAssign \in NullAssigns :
         LET r == IF rpc = 0 THEN ReadPlain(Reader, 4)
                  ELSE IF rpc = 1 THEN ReadPlain(Reader, 4)
                  ELSE IF rpc = 2 THEN ReadPlain(Reader, 8)
                  ELSE IF rpc = 3 THEN readFlatVector(Reader)
                  ELSE ReadString(Reader, ioNdebug, nullAssign)
         IN  /\ rcvQueue' = r.rs.queue
             /\ input' = r.rs.input
             /\ position' = r.rs.position
             /\ ioErr' = r.rs.err
             /\ rpc' = IF r.rs.err = "none" THEN rpc + 1 ELSE rpc
             /\ got' = IF r.rs.err = "none" THEN Append(got, r.bytes)
                       ELSE got
    /\ UNCHANGED << nDoubles, message, ioNdebug, wpc, obuf, disabled, pipe,
                    receiving >>
    /\ UNCHANGED nonIoVars

(* No data stream is in use. *)
IoIdle ==
    /\ nDoubles = 0 /\ message = << >> /\ ioNdebug = FALSE
    /\ wpc = 0 /\ obuf = << >> /\ disabled = FALSE /\ pipe = << >>
    /\ rcvQueue = << >> /\ receiving = FALSE
    /\ input = << >> /\ position = 0
    /\ rpc = 0 /\ got = << >> /\ ioErr = "none"

(***************************************************************************)
(* fabric::Object::releaseChildren (lib/fabric/object.h): children is the  *)
(* owner's vector of children, from which _removeChild erases a child.     *)
(***************************************************************************)
MaxChildren == 3      \* children in the vector

Children == { 30 + i : i \in 1 .. MaxChildren }

(* The vectors of children: every child at most once. *)
ChildrenVectors == DistinctSeqs(Children, NullChild, MaxChildren)

(* One pass of the loop of releaseChildren, in a build with ( nd ) or      *)
(* without NDEBUG.                                                        *)
ReleaseIteration ==
    /\ rcPc = "loop"
    /\ rcChildren # << >>
    /\ LET child == rcChildren[Len(rcChildren)]
       IN  IF child \notin rcAttached
           THEN /\ \E nd \in BOOLEAN :
                     rcPc' = IF ~nd /\ ~rcMaster THEN "assert"
                             ELSE "returned"
                /\ UNCHANGED << rcChildren, rcAttached, rcReleased >>
           ELSE /\ rcAttached' = rcAttached \ {child}
                /\ IF ~rcMaster
                   THEN /\ rcChildren' = Without(rcChildren, child)
                        /\ rcReleased' = Append(rcReleased, child)
                   ELSE UNCHANGED << rcChildren, rcReleased >>
                /\ UNCHANGED rcPc
    /\ UNCHANGED << rcMaster, rcChildren0 >>
    /\ UNCHANGED nonRcVars

(* The loop ends: children is empty. *)
ReleaseReturn ==
    /\ rcPc = "loop"
    /\ rcChildren = << >>
    /\ rcPc' = "returned"
    /\ UNCHANGED << rcMaster, rcChildren0, rcChildren, rcAttached,
                    rcReleased >>
    /\ UNCHANGED nonRcVars

(* No call of releaseChildren is made. *)
RcIdle ==
    /\ rcMaster = FALSE /\ rcChildren0 = << >> /\ rcChildren = << >>
    /\ rcAttached = {} /\ rcReleased = << >> /\ rcPc = "none"

(***************************************************************************)
(* LocalNode::_redispatchCommands pass by pass, as _dispatchCommand and    *)
(* the receiver thread ( EVENT_INTERRUPT ) call it. The handler a command  *)
(* is dispatched to runs in dispatchCommand and may map any objects.       *)
(***************************************************************************)
NoCmd == [command |-> "NONE", node |-> "peer", id |-> 0, object |-> "NODE"]

(* The index of the first command of p that dispatchCommand takes, 0 when  *)
(* the loop over the list reaches its end.                                 *)
FirstAccepted(p, m) ==
    IF \E i \in 1 .. Len(p) : dispatchCommand(p[i], m)
    THEN CHOOSE i \in 1 .. Len(p) :
             /\ dispatchCommand(p[i], m)
             /\ \A j \in 1 .. i - 1 : ~dispatchCommand(p[j], m)
    ELSE 0

(* A loop that does not note a dispatched command. *)
Changes_never(i) == FALSE

(* changes after a pass that ended at index i: true after a dispatch *)
Changes(i) == i # 0

(* _dispatchCommand up to the call of _redispatchCommands. *)
DispatchEnter ==
    /\ state = "LISTENING"
    /\ rdPc = "idle"
    /\ dWire # << >>
    /\ LET c == Head(dWire)
       IN
       /\ dWire' = Tail(dWire)
       /\ attempted' = Append(attempted, c.id)
       /\ IF dispatchCommand(c, mapped)
          THEN /\ refCount' = Release(Retain(refCount, c), c)
               /\ dispatched' = Append(dispatched, c.id)
               /\ \E newly \in SUBSET Objects : mapped' = mapped \cup newly
               /\ rdCmd' = NoCmd
               /\ UNCHANGED deferred
          ELSE /\ refCount' = Retain(refCount, c)
               /\ rdCmd' = c
               /\ deferred' = deferred \cup {c.id}
               /\ UNCHANGED << dispatched, mapped >>
    /\ rdPc' = "loop"
    /\ changes' = TRUE
    /\ passes' = << >>
    /\ UNCHANGED pendingCommands
    /\ UNCHANGED << tokenRest, mapVars, hsVars, laterRest >>

(* EVENT_INTERRUPT: the receiver thread calls _redispatchCommands. *)
InterruptEnter ==
    /\ state = "LISTENING"
    /\ rdPc = "idle"
    /\ rdPc' = "loop"
    /\ changes' = TRUE
    /\ passes' = << >>
    /\ rdCmd' = NoCmd
    /\ UNCHANGED << dispVars, tokenVars, mapVars, hsVars, laterRest >>

(* One pass of the while loop: the for loop runs from the head of the      *)
(* list to the first command that dispatches, or to the end.               *)
RedispatchPass ==
    /\ rdPc = "loop"
    /\ changes /\ pendingCommands # << >>
    /\ LET i == FirstAccepted(pendingCommands, mapped)
       IN
       /\ passes' = Append(passes,
                           [list |-> pendingCommands, mapped |-> mapped,
                            tried |-> IF i = 0 THEN Len(pendingCommands)
                                      ELSE i,
                            hit |-> i # 0])
       /\ changes' = Changes(i)
       /\ IF i # 0
          THEN /\ pendingCommands' = Erase(pendingCommands, i)
               /\ refCount' = Release(refCount, pendingCommands[i])
               /\ dispatched' = Append(dispatched, pendingCommands[i].id)
               /\ \E newly \in SUBSET Objects : mapped' = mapped \cup newly
          ELSE UNCHANGED << pendingCommands, refCount, dispatched, mapped >>
    /\ UNCHANGED << rdPc, rdCmd, dWire, attempted, deferred >>
    /\ UNCHANGED << tokenRest, mapVars, hsVars, laterRest >>

(* The while loop ends and _redispatchCommands returns. *)
RedispatchReturn ==
    /\ rdPc = "loop"
    /\ ~(changes /\ pendingCommands # << >>)
    /\ rdPc' = "returned"
    /\ UNCHANGED << changes, passes, rdCmd >>
    /\ UNCHANGED << dispVars, tokenVars, mapVars, hsVars, laterRest >>

(* Back in the caller: _dispatchCommand keeps a command that was not       *)
(* dispatched.                                                             *)
DispatchExit ==
    /\ rdPc = "returned"
    /\ rdPc' = "idle"
    /\ rdCmd' = NoCmd
    /\ pendingCommands' = IF rdCmd = NoCmd THEN pendingCommands
                          ELSE Defer(pendingCommands, rdCmd)
    /\ UNCHANGED << changes, passes, dWire, mapped, dispatched, attempted,
                    deferred >>
    /\ UNCHANGED << tokenVars, mapVars, hsVars, laterRest >>

(* _redispatchCommands is not running. *)
RdIdle ==
    /\ rdPc = "idle" /\ changes = FALSE /\ passes = << >> /\ rdCmd = NoCmd

(***************************************************************************)
(* The error count of LocalNode::_runReceiverThread: one pass of the loop  *)
(* for each result of select(). What the handlers of the other events do   *)
(* is modelled by the actions of the maps and of the dispatch.             *)
(***************************************************************************)
MaxErrors == 102      \* errors in a row that select() reports

ErrorLimit == 100
SelectErrorLimit == 10

Events == {"CONNECT", "DATA", "DISCONNECT", "INVALID_HANDLE", "TIMEOUT",
           "ERROR", "SELECT_ERROR", "INTERRUPT"}

(* The count after the switch: ++nErrors for the two kinds of error. *)
Counted(n, e) == IF e \in {"ERROR", "SELECT_ERROR"} THEN n + 1 ELSE n

(* The count at the end of the pass: 0 unless the event is an error. *)
AfterPass(n, e) == IF e \notin {"ERROR", "SELECT_ERROR"} THEN 0 ELSE n

(* One pass of the loop of _runReceiverThread with select() returning e. *)
ReceiverSelect(e) ==
    /\ state = "LISTENING"
    /\ ~rtAborted
    /\ nErrors < MaxErrors
    /\ LET n == Counted(nErrors, e)
       IN  /\ rtForced' = (e = "ERROR" /\ n > ErrorLimit)
           /\ rtAborted' = (e = "SELECT_ERROR" /\ n > SelectErrorLimit)
           /\ nErrors' = AfterPass(n, e)
    /\ errRun' = IF e = "ERROR" THEN errRun + 1 ELSE 0
    /\ selRun' = IF e = "SELECT_ERROR" THEN selRun + 1 ELSE 0
    /\ UNCHANGED nonRtVars

(* The receiver thread has not run its loop. *)
RtIdle ==
    /\ nErrors = 0 /\ errRun = 0 /\ selRun = 0
    /\ rtForced = FALSE /\ rtAborted = FALSE

(***************************************************************************)
(* LocalNode::_handleDisconnect step by step, for the connection whose     *)
(* commands the dispatch above reads: the loop over _handleData, the       *)
(* REMOVE_NODE command, the node and the maps, notifyDisconnect and        *)
(* _removeConnection. Objects are mapped by other threads meanwhile.       *)
(***************************************************************************)
DataConn == << "u", 1 >>         \* the connection dWire is read from
PeerID == "idB"                  \* the NodeID of the node connected by it

(* Side A after the CONNECT of the peer was accepted on DataConn. *)
PeerConnected ==
    cmdConnect(handleConnect(Listening("A"), DataConn), DataConn, PeerID)

(* The loop leaves without a read of what is left on the connection. *)
ResidualRead_skip(w) == TRUE

(* while( _handleData( )) ends: recvSync gets no size from the connection. *)
ResidualRead(w) == w = << >>

(* _handleDisconnect from the reset of the node to the erase from the      *)
(* maps, the connection still in the connection set.                       *)
closeNode(n, c) ==
    LET o == n.connectionNodes[c] IN
    IF n.node[o].outgoing = c
    THEN [n EXCEPT !.node[o] = [FreshNode EXCEPT !.id = n.node[o].id],
                   !.incoming = @ \ {n.node[o].outMulticast},
                   !.connectionNodes[c] = NoNode,
                   !.nodes[n.node[o].id] = NoNode]
    ELSE [n EXCEPT !.node[o] =
                       IF @.outMulticast = c
                       THEN [@ EXCEPT !.outMulticast = NOCONN]
                       ELSE [@ EXCEPT !.multicasts = @ \ {c}]]

(* LocalNode::_removeConnection *)
removeConnection(n, c) == [n EXCEPT !.incoming = @ \ {c}]

(* EVENT_DATA on the connection while it is in the connection set. *)
HdData ==
    /\ hdPc \in {"idle", "done"}
    /\ DataConn \in ln["A"].incoming
    /\ DispatchData

(* EVENT_INTERRUPT between two events. *)
HdInterrupt ==
    /\ hdPc \in {"idle", "done"}
    /\ Interrupt

(* EVENT_DISCONNECT or EVENT_INVALID_HANDLE for connection c. *)
HdEnter(c) ==
    /\ state = "LISTENING"
    /\ hdPc = "idle"
    /\ c \in ln["A"].incoming \ (Listeners \cup {PIPE})
    /\ hdPc' = "read"
    /\ hdConn' = c
    /\ hdResidual' = dWire
    /\ UNCHANGED << hdLog, hdMark, hdTaken, tokenVars, mapVars, hsVars,
                    dispVars, hdRest >>

(* One _handleData of the loop that returns true. *)
HdRead ==
    /\ hdPc = "read"
    /\ DispatchData

(* The loop ends; the REMOVE_NODE command of a known node is dispatched:   *)
(* its handler takes it, and _redispatchCommands runs.                     *)
HdRemoveNode ==
    /\ hdPc = "read"
    /\ ResidualRead(dWire)
    /\ IF ln["A"].connectionNodes[hdConn] # NoNode
       THEN /\ hdLog' = Append(hdLog, "REMOVE_NODE")
            /\ hdMark' = attempted
            /\ hdTaken' = dispatched
            /\ hdPc' = "close"
            /\ LET again == Redispatched(pendingCommands, mapped) IN
               /\ refCount' = ReleaseAll(refCount, again)
               /\ dispatched' = dispatched \o Ids(again)
               /\ pendingCommands' = StillPending(pendingCommands, mapped)
       ELSE /\ hdPc' = "unregister"
            /\ UNCHANGED << hdLog, hdMark, hdTaken, refCount, dispatched,
                            pendingCommands >>
    /\ UNCHANGED << hdConn, hdResidual, dWire, mapped, attempted, deferred, tokenRest,
                    mapVars, hsVars, hdRest >>

(* The node is closed and erased from the maps. *)
HdClose ==
    /\ hdPc = "close"
    /\ hdLog' = Append(hdLog, "CLOSED")
    /\ hdPc' = "notify"
    /\ ln' = [ln EXCEPT !["A"] = closeNode(@, hdConn)]
    /\ UNCHANGED << hdConn, hdResidual, hdMark, hdTaken, usedConns,
                    tokenVars, hsVars, dispVars, hdRest >>

HdNotify ==
    /\ hdPc = "notify"
    /\ hdLog' = Append(hdLog, "notifyDisconnect")
    /\ hdPc' = "unregister"
    /\ UNCHANGED << hdConn, hdResidual, hdMark, hdTaken, tokenVars,
                    mapVars, hsVars, dispVars, hdRest >>

HdRemoveConnection ==
    /\ hdPc = "unregister"
    /\ hdLog' = Append(hdLog, "removeConnection")
    /\ hdPc' = "done"
    /\ ln' = [ln EXCEPT !["A"] = removeConnection(@, hdConn)]
    /\ UNCHANGED << hdConn, hdResidual, hdMark, hdTaken, usedConns,
                    tokenVars, hsVars, dispVars, hdRest >>

(* No disconnect event yet. *)
HdIdle ==
    /\ hdPc = "idle" /\ hdConn = NOCONN /\ hdResidual = << >>
    /\ hdLog = << >> /\ hdMark = << >> /\ hdTaken = << >>

(***************************************************************************)
(* LocalNode::listen on a node that was constructed and not yet listening, *)
(* with the node's connection descriptions given as the listener           *)
(* connections Connection::create makes for them. Whether the pipe         *)
(* connection connects, and whether each listener can be created and       *)
(* listens, is input. No other thread of the node runs before listen()     *)
(* has started the receiver thread.                                        *)
(***************************************************************************)
(* The receiver-side state of side s after construction. *)
Closed(s) ==
    [Listening(s) EXCEPT
        !.incoming = {},
        !.connectionNodes = [c \in Conns |-> NoNode],
        !.nodes = [id \in AllIDs |-> NoNode],
        !.node[SELF] = [FreshNode EXCEPT !.id = IdOf(s)]]

(* The lists of descriptions a node may have. *)
DescriptionLists ==
    {<< >>} \cup { << c >> : c \in Listeners }
            \cup { p \in Listeners \X Listeners : p[1] # p[2] }

(* LocalNode::_connectSelf when the pipe connection connects. *)
connectSelf(n) ==
    [n EXCEPT !.node[SELF].outgoing = PIPE_OUT,
              !.connectionNodes[PIPE] = SELF,
              !.nodes[n.node[SELF].id] = SELF,
              !.incoming = @ \cup {PIPE}]

(* One pass of the loop of listen() for a listener that listens. *)
addListener(n, c) ==
    [n EXCEPT !.connectionNodes[c] = SELF,
              !.incoming = @ \cup {c},
              !.node[SELF].multicasts =
                  IF c \in MListeners THEN @ \cup {c} ELSE @]

(* The loop of listen() over the descriptions ds; ok[i] tells whether the  *)
(* i-th listener is created and listens. The loop returns at the first     *)
(* that does not.                                                          *)
RECURSIVE listenLoop(_, _, _)
listenLoop(n, ds, ok) ==
    IF ds = << >> THEN [n |-> n, ret |-> TRUE]
    ELSE IF ~Head(ok) THEN [n |-> n, ret |-> FALSE]
    ELSE listenLoop(addListener(n, Head(ds)), Tail(ds), Tail(ok))

(* LocalNode::listen() *)
listen(n, pipeOk, ds, ok) ==
    IF n.node[SELF].state # "CLOSED" \/ ~pipeOk
    THEN [n |-> n, ret |-> FALSE]
    ELSE LET r == listenLoop(connectSelf(n), ds, ok) IN
         IF r.ret
         THEN [n |-> [r.n EXCEPT !.node[SELF].state = "LISTENING"],
               ret |-> TRUE]
         ELSE r

(* The application calls listen(), or listen( connection ) with lsArg.     *)
Listen(pipeOk, ok) ==
    /\ lsPc = "closed"
    /\ LET r == listen(ln["A"], pipeOk, lsDescriptions, ok)
           n == IF r.ret /\ lsArg # NOCONN
                THEN [r.n EXCEPT !.incoming = @ \cup {lsArg}]
                ELSE r.n
       IN  /\ ln' = [ln EXCEPT !["A"] = n]
           /\ usedConns' = usedConns \cup n.incoming
           /\ state' = IF r.ret THEN "LISTENING" ELSE state
           /\ rcvStarted' = r.ret
           /\ lsPc' = IF r.ret THEN "true" ELSE "false"
    /\ UNCHANGED << now, timeout, closePc, wire, cmdThreadQueue, sendToken,
                    lastSendToken, sendTokenQueue, refCount, replies,
                    appPhase, appToken, reqTime, nAcquires, relCalls, granted,
                    unanswered, timeoutElapsed, foreignRelease >>
    /\ UNCHANGED << lsDescriptions, lsArg, lsNdebug, hsVars, dispVars,
                    lsRest >>

(* The application deletes a node that is not listening; close() returns   *)
(* false on such a node and cleans nothing up. The destructor asserts that *)
(* the connection set and the maps are empty.                              *)
DeleteNode ==
    /\ lsPc \in {"closed", "false"}
    /\ LET n == ln["A"]
           empty == /\ n.incoming = {}
                    /\ \A c \in Conns : n.connectionNodes[c] = NoNode
                    /\ pendingCommands = << >>
                    /\ \A id \in AllIDs : n.nodes[id] = NoNode
       IN  lsPc' = IF empty \/ lsNdebug THEN "deleted" ELSE "abort"
    /\ UNCHANGED << lsDescriptions, lsArg, lsNdebug, rcvStarted, tokenVars,
                    mapVars, hsVars, dispVars, lsRest >>

(* listen() is not the subject. *)
LsIdle ==
    /\ lsPc = "none" /\ lsDescriptions = << >> /\ lsArg = NOCONN
    /\ lsNdebug = FALSE /\ rcvStarted = FALSE

LaterIdle ==
    /\ CallIdle /\ CloseIdle /\ DiscIdle /\ StreamIdle /\ LifeIdle
    /\ ChildIdle /\ IoIdle /\ RcIdle /\ RdIdle /\ RtIdle /\ HdIdle
    /\ LsIdle

(***************************************************************************)
(* The send-token specification.                                           *)
(***************************************************************************)
TokenInit ==
    /\ now = 0
    /\ timeout \in {TimeoutMs, LB_TIMEOUT_INDEFINITE}
    /\ state = "LISTENING"
    /\ closePc = "idle"
    /\ wire = [p \in Peers |-> << >>]
    /\ cmdThreadQueue = << >>
    /\ sendToken = TRUE
    /\ lastSendToken = 0
    /\ sendTokenQueue = << >>
    /\ refCount = << >>
    /\ replies = [p \in Peers |-> << >>]
    /\ appPhase = [p \in Peers |-> "idle"]
    /\ appToken = [p \in Peers |-> NULL]
    /\ reqTime = [p \in Peers |-> 0]
    /\ nAcquires = [p \in Peers |-> 0]
    /\ relCalls = [p \in Peers |-> 0]
    /\ granted = {}
    /\ unanswered = << >>
    /\ timeoutElapsed = FALSE
    /\ foreignRelease = FALSE

InitToken == TokenInit /\ MapInit /\ HsIdle /\ DispIdle /\ LaterIdle

NextToken ==
    \/ \E p \in Peers : AcquireSendToken(p)
    \/ \E p \in Peers : CmdAcquireSendTokenReply(p)
    \/ \E p \in Peers : AcquireTimeout(p)
    \/ \E p \in Peers : ReleaseSendToken(p)
    \/ \E p \in Peers : HandleData(p)
    \/ CmdAcquireSendToken
    \/ CmdReleaseSendToken
    \/ Tick

SpecToken == InitToken /\ [][NextToken]_vars

(* The same with a timeout that changes while the node runs.               *)
NextTimeout ==
    \/ NextToken
    \/ \E t \in {TimeoutMs, LB_TIMEOUT_INDEFINITE} : SetTimeout(t)

SpecTimeout == InitToken /\ [][NextTimeout]_vars

(* The same with close() of the holder.                                    *)
NextClose ==
    \/ NextToken
    \/ Close
    \/ CloseRefused
    \/ CmdStopRcv
    \/ CmdStopCmd
    \/ ReceiverLeave
    \/ ReceiverExit
    \/ CloseReturn

SpecClose == InitToken /\ [][NextClose]_vars

(* Scheduling: both threads of the holder and the receiver threads of the  *)
(* peers keep running, packets are delivered, and an application that was  *)
(* given the token calls releaseSendToken.                                 *)
FairToken ==
    /\ \A p \in Peers : WF_vars(HandleData(p))
    /\ \A p \in Peers : WF_vars(CmdAcquireSendTokenReply(p))
    /\ \A p \in Peers : WF_vars(ReleaseSendToken(p))
    /\ WF_vars(CmdAcquireSendToken)
    /\ WF_vars(CmdReleaseSendToken)

SpecTokenFair == InitToken /\ [][NextToken]_vars /\ FairToken

(***************************************************************************)
(* The specification of the receiver thread's maps.                        *)
(***************************************************************************)
InitMaps ==
    TokenInit /\ timeout = LB_TIMEOUT_INDEFINITE /\ MapInit /\ HsIdle
        /\ DispIdle /\ LaterIdle

NextMaps ==
    \/ \E l \in Listeners, c \in UConns \cup MConns : HandleConnect(l, c)
    \/ \E o \in 1 .. MaxNodes, c \in UConns : Connect(o, c)
    \/ \E c \in UConns, id \in AllIDs \ {"idA"} : CmdConnect(c, id)
    \/ \E c \in UConns, id \in (AllIDs \ {"idA"}) \cup {ZERO},
           mode \in {"none", "shared", "list"} : CmdConnectReply(c, id, mode)
    \/ \E o \in 1 .. MaxNodes, mode \in {"none", "shared", "list"} :
           CmdConnectAck(o, mode)
    \/ \E c \in MConns, id \in AllIDs : CmdID(c, id)
    \/ \E o \in 1 .. MaxNodes : CmdDisconnect(o)
    \/ \E c \in UConns \cup MConns : HandleDisconnect(c)
    \/ \E c \in Listeners : CmdAddListener(c)
    \/ \E c \in Listeners : CmdRemoveListener(c)

SpecMaps == InitMaps /\ [][NextMaps]_vars

(***************************************************************************)
(* The specification of the simultaneous connect.                          *)
(***************************************************************************)
(* Both sides are listening, hold the unconnected Node they were given for *)
(* the other and are about to enter the loop.                              *)
InitConnect ==
    /\ TokenInit /\ timeout = LB_TIMEOUT_INDEFINITE
    /\ usedConns = {PIPE, LU}
    /\ ln = [s \in Sides |->
               [Listening(s) EXCEPT
                  !.alloc = {1},
                  !.node[1] = [FreshNode EXCEPT !.id = IdOf(Other(s))]]]
    /\ net = [c \in HsConns |-> Unmade]
    /\ app = [s \in Sides |-> [pc |-> "loop", tries |-> Tries, node |-> 1,
                               conn |-> NOCONN, connected |-> FALSE,
                               result |-> NoNode]]
    /\ DispIdle /\ LaterIdle

NextConnect ==
    \/ \E s \in Sides : ConnectLoop(s)
    \/ \E s \in Sides, c \in HsConns : PeerHandleConnect(s, c)
    \/ \E s \in Sides, c \in HsConns : PeerCmdConnect(s, c)
    \/ \E s \in Sides, c \in HsConns : PeerCmdConnectReply(s, c)
    \/ \E s \in Sides : ConnectServed(s)
    \/ \E s \in Sides, c \in HsConns : PeerHandleDisconnect(s, c)

SpecConnect == InitConnect /\ [][NextConnect]_vars

(***************************************************************************)
(* The specification of command dispatch: any MaxCmds commands are on the  *)
(* wire of the connection and no object is mapped yet.                     *)
(***************************************************************************)
InitDispatch ==
    /\ TokenInit /\ timeout = LB_TIMEOUT_INDEFINITE
    /\ MapInit /\ HsIdle
    /\ \E ks \in [1 .. MaxCmds -> Kinds] :
           dWire = [i \in 1 .. MaxCmds |-> WireCommand(i, ks[i])]
    /\ pendingCommands = << >>
    /\ mapped = {}
    /\ dispatched = << >>
    /\ attempted = << >>
    /\ deferred = {}
    /\ LaterIdle

NextDispatch ==
    \/ DispatchData
    \/ Interrupt
    \/ \E x \in Objects : MapObject(x)

SpecDispatch == InitDispatch /\ [][NextDispatch]_vars

(***************************************************************************)
(* The specification of connect( nodeID ): side A is listening and has one *)
(* connected peer, idC, and its threads connect to the NodeID of side B.   *)
(***************************************************************************)
InitCall ==
    /\ TokenInit /\ timeout = LB_TIMEOUT_INDEFINITE
    /\ usedConns = {PIPE, LU, PeerConn}
    /\ ln = [s \in Sides |->
               IF s = "A"
               THEN [Listening(s) EXCEPT
                       !.incoming = @ \cup {PeerConn},
                       !.connectionNodes[PeerConn] = 1,
                       !.nodes["idC"] = 1,
                       !.alloc = {1},
                       !.node[1] = [FreshNode EXCEPT
                                      !.id = "idC",
                                      !.state = "CONNECTED",
                                      !.outgoing = PeerConn]]
               ELSE Listening(s)]
    /\ HsIdle /\ DispIdle /\ LaterIdle

NextCall ==
    \/ \E t \in Threads : CallConnect(t)
    \/ \E t \in Threads : ConnectEnter(t)
    \/ \E t \in Threads : ConnectPeer(t)
    \/ \E t \in Threads, found \in BOOLEAN : CmdGetNodeDataReply(t, found)
    \/ \E t \in Threads, reachable \in BOOLEAN : CallLoop(t, reachable)
    \/ \E t \in Threads, id \in {ZERO, TargetID} : CallCmdConnectReply(t, id)
    \/ \E t \in Threads : CallServed(t)
    \/ \E t \in Threads : CallTimeout(t)

SpecCall == InitCall /\ [][NextCall]_vars

(***************************************************************************)
(* The specification of the shutdown: the node is listening, alone or with *)
(* its listener removed, or with a connected peer, or with a connected     *)
(* peer and a CONNECT sent to another node; threads use the send token,    *)
(* without a timeout, while close() runs.                                  *)
(***************************************************************************)
ShutdownStates ==
    LET alone == Listening("A")
        peer == cmdConnect(handleConnect(alone, << "u", 1 >>),
                           << "u", 1 >>, "idB")
        other == [peer EXCEPT !.node[2] = [FreshNode EXCEPT !.id = "idC"]]
    IN {alone,
        cmdRemoveListener(alone, LU),
        peer,
        connect(other, 2, << "u", 2 >>)}

InitShutdown ==
    /\ TokenInit /\ timeout = LB_TIMEOUT_INDEFINITE
    /\ \E n \in ShutdownStates :
           /\ ln = [s \in Sides |-> IF s = "A" THEN n ELSE Listening(s)]
           /\ usedConns = {PIPE, LU} \cup n.incoming
    /\ HsIdle /\ DispIdle /\ LaterIdle

(* Without a timeout _cmdAcquireSendToken queues every request, so no      *)
(* reply is sent and no thread has a token to release.                     *)
NextShutdown ==
    \/ \E p \in Peers : AcquireSendToken(p)
    \/ \E p \in Peers : HandleData(p)
    \/ CmdAcquireSendToken
    \/ Close
    \/ CloseRefused
    \/ CmdStopRcv
    \/ CmdStopCmd
    \/ ReceiverLeave
    \/ ReceiverExit
    \/ CloseReturn

SpecShutdown == InitShutdown /\ [][NextShutdown]_vars

(* The receiver thread and the command thread run when they can, and       *)
(* close() goes on when the receiver thread is joined.                     *)
FairClose ==
    /\ WF_vars(CmdStopRcv)
    /\ WF_vars(CmdStopCmd)
    /\ WF_vars(CmdAcquireSendToken)
    /\ WF_vars(ReceiverLeave)
    /\ WF_vars(ReceiverExit)
    /\ WF_vars(CloseReturn)

SpecShutdownFair == SpecShutdown /\ FairClose

(***************************************************************************)
(* The specification of disconnect( node ): the node listens on a unicast  *)
(* and a multicast listener, peers connect to it, announce themselves on   *)
(* multicast connections and go away, a thread disconnects nodes, and      *)
(* close() may be called.                                                  *)
(***************************************************************************)
InitDisconnect ==
    /\ TokenInit /\ timeout = LB_TIMEOUT_INDEFINITE
    /\ ln = [s \in Sides |-> IF s = "A" THEN cmdAddListener(Listening(s), LM)
                             ELSE Listening(s)]
    /\ usedConns = {PIPE, LU, LM}
    /\ HsIdle /\ DispIdle /\ LaterIdle

NextDisconnect ==
    \/ \E l \in Listeners, c \in UConns \cup MConns : HandleConnect(l, c)
    \/ \E c \in UConns, id \in AllIDs \ {"idA"} : CmdConnect(c, id)
    \/ \E c \in MConns, id \in AllIDs \ {"idA"} : CmdID(c, id)
    \/ \E c \in UConns \cup MConns : HandleDisconnect(c)
    \/ \E o \in {NoNode} \cup (1 .. MaxNodes) : DisconnectCall(o)
    \/ DisconnectHandled
    \/ DisconnectReturn
    \/ Close
    \/ CmdStopRcv
    \/ CmdStopCmd
    \/ ReceiverLeave
    \/ ReceiverExit
    \/ CloseReturn

SpecDisconnect == InitDisconnect /\ [][NextDisconnect]_vars

(***************************************************************************)
(* The specification of one ObjectDataIStream, in a build with and in a    *)
(* build without assertions: any packets are added and commands are taken  *)
(* in any order.                                                           *)
(***************************************************************************)
InitStream ==
    /\ TokenInit /\ timeout = LB_TIMEOUT_INDEFINITE
    /\ MapInit /\ HsIdle /\ DispIdle
    /\ CallIdle /\ CloseIdle /\ DiscIdle /\ LifeIdle /\ ChildIdle
    /\ IoIdle /\ RcIdle /\ RdIdle /\ RtIdle /\ HdIdle /\ LsIdle
    /\ ndebug \in BOOLEAN
    /\ StreamNew

NextStream ==
    \/ \E p \in Packets : AddDataPacket(p)
    \/ GetNextCommand

SpecStream == InitStream /\ [][NextStream]_vars

(***************************************************************************)
(* The specification of the life of one ObjectDataIStream: packets are     *)
(* added and commands taken, and the stream is reset, copied and           *)
(* destroyed, in any order. The sender numbers the packets of version 1    *)
(* from 0, and again from 0 after a reset().                               *)
(***************************************************************************)
NextInSequence ==
    { p \in Packets :
        /\ p.version = 1
        /\ p.sequence = Len(packets) - (IF resetAt = NoReset THEN 0
                                        ELSE resetAt.packets) }

NextLife ==
    \/ \E p \in NextInSequence : LiveAddDataPacket(p)
    \/ LiveGetNextCommand
    \/ Reset
    \/ Destroy
    \/ \E i \in 1 .. MaxCopies : CopyConstruct(i)
    \/ \E i \in 1 .. MaxCopies : CopyGetNextCommand(i)
    \/ \E i \in 1 .. MaxCopies : CopyDestroy(i)

SpecLife == InitStream /\ [][NextLife]_vars

(***************************************************************************)
(* The specification of deserializeChildren: one call on any vector of     *)
(* children and any serialized list, on a master and on a slave, with      *)
(* result a vector of its own (which holds the children of old_, as with   *)
(* a copy) or the vector old_ itself.                                      *)
(***************************************************************************)
InitChildren ==
    /\ TokenInit /\ timeout = LB_TIMEOUT_INDEFINITE
    /\ MapInit /\ HsIdle /\ DispIdle
    /\ CallIdle /\ CloseIdle /\ DiscIdle /\ StreamIdle /\ LifeIdle
    /\ IoIdle /\ RcIdle /\ RdIdle /\ RtIdle /\ HdIdle /\ LsIdle
    /\ old_ \in ChildVectors
    /\ versions \in ObjectVersionLists
    /\ isMaster \in BOOLEAN
    /\ alias \in BOOLEAN
    /\ result = old_
    /\ syncs = << >> /\ mapCalls = << >> /\ removals = << >>
    /\ attached = {} /\ childIsMaster = FALSE
    /\ dcPc = "call"

NextChildren == DeserializeChildren

SpecChildren == InitChildren /\ [][NextChildren]_vars

(***************************************************************************)
(* The specification of the data stream test: the sender writes its five   *)
(* values and sends the data at any points between two writes; main        *)
(* receives the commands up to the last one and then reads the values.     *)
(***************************************************************************)
InitDataStream ==
    /\ TokenInit /\ timeout = LB_TIMEOUT_INDEFINITE
    /\ MapInit /\ HsIdle /\ DispIdle
    /\ CallIdle /\ CloseIdle /\ DiscIdle /\ StreamIdle /\ LifeIdle
    /\ ChildIdle /\ RcIdle /\ RdIdle /\ RtIdle /\ HdIdle /\ LsIdle
    /\ nDoubles \in 0 .. MaxDoubles
    /\ message \in Messages
    /\ ioNdebug \in BOOLEAN
    /\ wpc = 0 /\ obuf = << >> /\ disabled = FALSE /\ pipe = << >>
    /\ rcvQueue = << >> /\ receiving = TRUE
    /\ input = << >> /\ position = 0
    /\ rpc = 0 /\ got = << >> /\ ioErr = "none"

NextDataStream ==
    \/ Write
    \/ SendData
    \/ Disable
    \/ AddDataCommand
    \/ ReadNext

SpecDataStream == InitDataStream /\ [][NextDataStream]_vars

(***************************************************************************)
(* The specification of one read of a text from any buffer: a length of    *)
(* any value, followed by any number of bytes.                             *)
(***************************************************************************)
Lengths == 0 .. MaxText + 2

InitText ==
    /\ TokenInit /\ timeout = LB_TIMEOUT_INDEFINITE
    /\ MapInit /\ HsIdle /\ DispIdle
    /\ CallIdle /\ CloseIdle /\ DiscIdle /\ StreamIdle /\ LifeIdle
    /\ ChildIdle /\ RcIdle /\ RdIdle /\ RtIdle /\ HdIdle /\ LsIdle
    /\ nDoubles = 0 /\ message = << >>
    /\ ioNdebug \in BOOLEAN
    /\ wpc = 0 /\ obuf = << >> /\ disabled = TRUE /\ pipe = << >>
    /\ rcvQueue = << >> /\ receiving = FALSE
    /\ \E n \in Lengths, m \in 0 .. MaxText + 1 :
         \E bytes \in [1 .. m -> {83, 111}] :
            input = Encode(n, SizeofUint64) \o bytes
    /\ position = 0
    /\ rpc = 4 /\ got = << >> /\ ioErr = "none"

NextText == ReadNext

SpecText == InitText /\ [][NextText]_vars

(***************************************************************************)
(* The specification of releaseChildren: one call, on a master or a slave  *)
(* instance, on any vector of children of which any are attached.          *)
(***************************************************************************)
InitRelease ==
    /\ TokenInit /\ timeout = LB_TIMEOUT_INDEFINITE
    /\ MapInit /\ HsIdle /\ DispIdle
    /\ CallIdle /\ CloseIdle /\ DiscIdle /\ StreamIdle /\ LifeIdle
    /\ ChildIdle /\ IoIdle /\ RdIdle /\ RtIdle /\ HdIdle /\ LsIdle
    /\ rcMaster \in BOOLEAN
    /\ rcChildren0 \in ChildrenVectors
    /\ rcChildren = rcChildren0
    /\ rcAttached \in SUBSET Range(rcChildren0)
    /\ rcReleased = << >>
    /\ rcPc = "loop"

NextRelease ==
    \/ ReleaseIteration
    \/ ReleaseReturn

SpecRelease == InitRelease /\ [][NextRelease]_vars

(***************************************************************************)
(* The specification of _redispatchCommands: the commands of one           *)
(* connection are dispatched or deferred, and the loop over the pending    *)
(* commands runs pass by pass; the receiver thread does not stop inside    *)
(* the loop.                                                               *)
(***************************************************************************)
NextRedispatch ==
    \/ DispatchEnter
    \/ InterruptEnter
    \/ RedispatchPass
    \/ RedispatchReturn
    \/ DispatchExit

SpecRedispatch ==
    /\ InitDispatch
    /\ [][NextRedispatch]_vars
    /\ WF_vars(RedispatchPass)
    /\ WF_vars(RedispatchReturn)

(***************************************************************************)
(* The specification of the receiver thread's error count: select()        *)
(* returns any events in any order.                                        *)
(***************************************************************************)
InitReceiver ==
    /\ TokenInit /\ timeout = LB_TIMEOUT_INDEFINITE
    /\ MapInit /\ HsIdle /\ DispIdle
    /\ LaterIdle

NextReceiver == \E e \in Events : ReceiverSelect(e)

SpecReceiver == InitReceiver /\ [][NextReceiver]_vars

(***************************************************************************)
(* The specification of the disconnect of a connected node: the commands   *)
(* of InitDispatch are sent on the node's connection, and the connection   *)
(* is closed by the peer at any time.                                      *)
(***************************************************************************)
InitHandleDisconnect ==
    /\ TokenInit /\ timeout = LB_TIMEOUT_INDEFINITE
    /\ ln = [s \in Sides |-> IF s = "A" THEN PeerConnected ELSE Listening(s)]
    /\ usedConns = {PIPE, LU, DataConn}
    /\ HsIdle
    /\ \E ks \in [1 .. MaxCmds -> Kinds] :
           dWire = [i \in 1 .. MaxCmds |-> WireCommand(i, ks[i])]
    /\ pendingCommands = << >>
    /\ mapped = {}
    /\ dispatched = << >>
    /\ attempted = << >>
    /\ deferred = {}
    /\ LaterIdle

NextHandleDisconnect ==
    \/ HdData
    \/ HdInterrupt
    \/ \E x \in Objects : MapObject(x)
    \/ \E c \in Conns : HdEnter(c)
    \/ HdRead
    \/ HdRemoveNode
    \/ HdClose
    \/ HdNotify
    \/ HdRemoveConnection

SpecHandleDisconnect == InitHandleDisconnect /\ [][NextHandleDisconnect]_vars

(***************************************************************************)
(* The specification of a shutdown with pending commands: the commands of  *)
(* InitDispatch are read and dispatched, objects are mapped, and close()   *)
(* is called at any time.                                                  *)
(***************************************************************************)
NextPending ==
    \/ DispatchData
    \/ Interrupt
    \/ \E x \in Objects : MapObject(x)
    \/ Close
    \/ CmdStopRcv
    \/ CmdStopCmd
    \/ ReceiverLeave
    \/ ReceiverExit
    \/ CloseReturn

SpecPending == InitDispatch /\ [][NextPending]_vars

(***************************************************************************)
(* The specification of listen(): a constructed node with any descriptions *)
(* on which the application calls listen once.                             *)
(***************************************************************************)
InitListen ==
    /\ now = 0
    /\ timeout = LB_TIMEOUT_INDEFINITE
    /\ state = "CLOSED"
    /\ closePc = "idle"
    /\ wire = [p \in Peers |-> << >>]
    /\ cmdThreadQueue = << >>
    /\ sendToken = TRUE
    /\ lastSendToken = 0
    /\ sendTokenQueue = << >>
    /\ refCount = << >>
    /\ replies = [p \in Peers |-> << >>]
    /\ appPhase = [p \in Peers |-> "idle"]
    /\ appToken = [p \in Peers |-> NULL]
    /\ reqTime = [p \in Peers |-> 0]
    /\ nAcquires = [p \in Peers |-> 0]
    /\ relCalls = [p \in Peers |-> 0]
    /\ granted = {}
    /\ unanswered = << >>
    /\ timeoutElapsed = FALSE
    /\ foreignRelease = FALSE
    /\ ln = [s \in Sides |-> IF s = "A" THEN Closed(s) ELSE Listening(s)]
    /\ usedConns = {}
    /\ HsIdle /\ DispIdle
    /\ CallIdle /\ CloseIdle /\ DiscIdle /\ StreamIdle /\ LifeIdle
    /\ ChildIdle /\ IoIdle /\ RcIdle /\ RdIdle /\ RtIdle /\ HdIdle
    /\ lsPc = "closed"
    /\ lsDescriptions \in DescriptionLists
    /\ lsArg \in {NOCONN} \cup UConns
    /\ lsNdebug \in BOOLEAN
    /\ rcvStarted = FALSE

NextListen ==
    \/ \E pipeOk \in BOOLEAN, ok \in [1 .. Len(lsDescriptions) -> BOOLEAN] :
           Listen(pipeOk, ok)
    \/ DeleteNode

SpecListen == InitListen /\ [][NextListen]_vars

(***************************************************************************)
(* Claims about the send token.                                            *)
(***************************************************************************)

(* The step in which the command thread handles the ACQUIRE at the head    *)
(* of its queue, and the step in which a reply is sent to p.               *)
HandlesAcquire ==
    /\ cmdThreadQueue # << >>
    /\ Head(cmdThreadQueue).command = "ACQUIRE"
    /\ cmdThreadQueue' = Tail(cmdThreadQueue)

ReplySentTo(p) == Len(replies'[p]) > Len(replies[p])

C2_ImmediateGrant ==
    [][(HandlesAcquire /\ sendToken)
          => /\ sendToken' = FALSE
             /\ ReplySentTo(Head(cmdThreadQueue).node)
             /\ Head(cmdThreadQueue) \notin Range(sendTokenQueue')]_vars

(* No request has waited for longer than the timeout, and every handled   *)
(* request that is unanswered still has its requester waiting for it.      *)
RequestersInTime ==
    /\ \A q \in Peers :
           appPhase[q] = "waiting"
              => (timeout = LB_TIMEOUT_INDEFINITE
                     \/ now - reqTime[q] <= timeout)
    /\ \A i \in 1 .. Len(unanswered) :
           appPhase[unanswered[i].node] = "waiting"

(* C3: FIFO grants. While no requester has run into its timeout, no        *)
(* outstanding grant has expired and no foreign release was handled, a     *)
(* reply goes to the oldest handled request that is still unanswered, and  *)
(* when it is sent no earlier grant is still outstanding.                  *)
C3_FifoGrants ==
    [][\A p \in Peers :
          (/\ ReplySentTo(p)
           /\ RequestersInTime
           /\ ~timeoutElapsed'
           /\ ~foreignRelease')
             => /\ unanswered # << >> => Head(unanswered).node = p
                /\ granted' = {p}]_vars

(* C4: liveness. With no timeout configured, every acquireSendToken call   *)
(* that is waiting for its reply eventually returns the token handle.      *)
C4_AcquireAnswered ==
    \A p \in Peers :
        (timeout = LB_TIMEOUT_INDEFINITE /\ appPhase[p] = "waiting")
            ~> (appToken[p] # NULL)

(* C5: idempotent release. The second releaseSendToken call on a handle    *)
(* sends nothing and changes nothing on the holder: no grant, the same     *)
(* sendToken bit and the same sendTokenQueue.                              *)
C5_IdempotentRelease ==
    [][\A p \in Peers :
          (relCalls[p] = 1 /\ relCalls'[p] = 2)
             => UNCHANGED << wire, cmdThreadQueue, sendToken, sendTokenQueue,
                             replies, granted, appToken >>]_vars

(* C5 witness: a peer was granted the token, released it, and called       *)
(* releaseSendToken once more.                                             *)
C5_Witness ==
    \E p \in Peers : relCalls[p] = 2 /\ nAcquires[p] > 0 /\ appToken[p] = NULL

(***************************************************************************)
(* Claims about close().                                                   *)
(***************************************************************************)

(* References the command thread's queue itself still holds on c.          *)
QueueRefs(c) ==
    Cardinality({ i \in 1 .. Len(cmdThreadQueue) : cmdThreadQueue[i] = c })

(* C8: no command leaks. Once close() has returned, no Command is still    *)
(* retained by the node: every retain made by a dispatch or by the         *)
(* ACQUIRE handler for sendTokenQueue has been matched by a release,       *)
(* whether the request was still queued or its queue was discarded.        *)
C8_NoCommandLeak ==
    closePc = "returned"
        => \A c \in DOMAIN refCount : refCount[c] = QueueRefs(c)

(***************************************************************************)
(* Claims about the receiver thread's maps.                                *)
(***************************************************************************)

(* C6: NodeID map integrity. Between two handled events every Node stored  *)
(* in the NodeID map is connected: CONNECTED, or LISTENING for the entry   *)
(* of the local node itself.                                               *)
C6_NodesConnected ==
    \A id \in AllIDs :
        ln["A"].nodes[id] # NoNode
            => ln["A"].node[ln["A"].nodes[id]].state =
                   (IF ln["A"].nodes[id] = SELF THEN "LISTENING"
                    ELSE "CONNECTED")

(* C7: connection map integrity. Between two handled events every          *)
(* connection that is a key of the connection -> Node map is a member of   *)
(* the connection set.                                                     *)
C7_MappedConnectionsInSet ==
    \A c \in Conns :
        ln["A"].connectionNodes[c] # NoNode => c \in ln["A"].incoming

(***************************************************************************)
(* Claims about the connect handshake.                                     *)
(***************************************************************************)

(* Nothing is in flight: every connection made is accepted, every packet   *)
(* is read and every close has been seen by the other side.                *)
HsQuiescent ==
    \A c \in HsConns :
        /\ net[c].made => net[c].accepted
        /\ net[c].toAcc = << >> /\ net[c].toInit = << >>
        /\ \A s \in Sides :
               c \in ln[s].incoming => Other(s) \notin net[c].closed

(* The Node objects of side s for the other side that are CONNECTED, and   *)
(* the connections that side s maps to a Node of the other side.           *)
ConnectedPeers(s) ==
    { o \in ln[s].alloc : /\ ln[s].node[o].id = IdOf(Other(s))
                          /\ ln[s].node[o].state = "CONNECTED" }

PeerConnections(s) ==
    { c \in Conns : /\ ln[s].connectionNodes[c] \in 1 .. MaxNodes
                    /\ ln[s].node[ln[s].connectionNodes[c]].id
                           = IdOf(Other(s)) }

(* C9: simultaneous connect. When both connect() calls have returned and   *)
(* nothing is in flight, each call has returned a connected Node, each     *)
(* side holds exactly one CONNECTED Node for the other, and each side's    *)
(* connection -> Node map has exactly one entry for the other.             *)
C9_SimultaneousConnect ==
    ((\A s \in Sides : app[s].pc = "done") /\ HsQuiescent)
        => \A s \in Sides :
               /\ app[s].result # NoNode
               /\ ln[s].node[app[s].result].state = "CONNECTED"
               /\ Cardinality(ConnectedPeers(s)) = 1
               /\ Cardinality(PeerConnections(s)) = 1

(***************************************************************************)
(* Claims about command dispatch.                                          *)
(***************************************************************************)

Increasing(s) == \A i, j \in 1 .. Len(s) : i < j => s[i] < s[j]

(* C10 as stated: the handlers take the commands of the connection in the  *)
(* order in which they arrived on the wire, deferred commands included.    *)
C10_WireOrderDispatch == Increasing(dispatched)

(* C10 amended: the commands are dispatched for the first time in wire     *)
(* order; the commands taken at their first dispatch are taken in wire     *)
(* order; a deferred command stays in pendingCommands, which keeps the     *)
(* wire order, and only a deferred command is taken after a command that   *)
(* arrived later.                                                          *)
C10_FirstDispatchInOrder ==
    /\ attempted = [i \in 1 .. Len(attempted) |-> i]
    /\ Increasing(Ids(pendingCommands))
    /\ \A i, j \in 1 .. Len(dispatched) :
           (i < j /\ dispatched[i] > dispatched[j])
               => dispatched[j] \in deferred

(* C10 witness: a deferred command was taken after a command that arrived  *)
(* later, while another deferred command is still pending.                 *)
C10_Witness ==
    /\ \E i, j \in 1 .. Len(dispatched) :
           i < j /\ dispatched[i] > dispatched[j]
    /\ pendingCommands # << >>

(* C11: deferred dispatch. While the node is LISTENING a deferred command  *)
(* is either still in pendingCommands, holding its one reference, or was   *)
(* handed to its handler, exactly once, and is released; and every         *)
(* _redispatchCommands, after a dispatched command or on an interrupt,     *)
(* leaves no command pending that its handler would take.                  *)
C11_DeferredDispatch ==
    /\ [](state = "LISTENING" =>
            /\ \A n \in deferred :
                   (n \in Range(Ids(pendingCommands)))
                       # (n \in Range(dispatched))
            /\ \A i, j \in 1 .. Len(dispatched) :
                   dispatched[i] = dispatched[j] => i = j
            /\ \A c \in DOMAIN refCount :
                   refCount[c] = IF c \in Range(pendingCommands) THEN 1
                                 ELSE 0)
    /\ [][(attempted' # attempted \/ dispatched' # dispatched)
             => \A i \in 1 .. Len(pendingCommands') :
                    ~dispatchCommand(pendingCommands'[i], mapped')]_vars

(* C11 witness: a command that was deferred has been handed to its handler *)
(* by a redispatch and released, while another one is still pending.       *)
C11_Witness ==
    /\ \E n \in deferred : n \in Range(dispatched)
    /\ pendingCommands # << >>
    /\ \E c \in DOMAIN refCount : c.id \in deferred /\ refCount[c] = 0

(***************************************************************************)
(* Claims about connect( nodeID ).                                         *)
(***************************************************************************)

(* Thread t is inside connect( nodeID ), past the lock and not returned:   *)
(* every GET_NODE_DATA and CONNECT of the call is sent from here.          *)
InFlight(t) == call[t].pc \in {"peers", "data", "loop", "wait", "served"}

(* C12: at most one connect( nodeID ) is past the lock at a time, and it   *)
(* is the call of the thread that holds connectLock: a second thread sends *)
(* no GET_NODE_DATA and no CONNECT before the first call has returned.     *)
C12_OneConnectInFlight ==
    /\ \A t1, t2 \in Threads : InFlight(t1) /\ InFlight(t2) => t1 = t2
    /\ \A t \in Threads : InFlight(t) <=> connectLock = t

C12_Witness ==
    \E t1, t2 \in Threads :
        /\ call[t1].pc = "wait" /\ nAttempts[t1] > 0
        /\ call[t2].pc = "lock"

(* C13: a connect( nodeID ) in which every handshake ended in              *)
(* CONNECT_TRY_AGAIN and that gave up because its tries ran out has made   *)
(* ten handshake attempts.                                                 *)
C13_TenAttempts ==
    \A t \in Threads :
        (/\ call[t].pc = "done"
         /\ call[t].result = NoNode
         /\ call[t].tries = 0
         /\ outcomes[t] = {"CONNECT_TRY_AGAIN"})
            => nAttempts[t] = 10

(* C14: the step in which the wait for the CONNECT_REPLY times out ends    *)
(* the call with no node, and after it the connection of the attempt is    *)
(* not in the connection set and the node is CLOSED and in neither map.    *)
C14_TimeoutLeavesNothing ==
    [][\A t \in Threads :
          timedOut' # timedOut /\ call[t].pc = "wait" /\ call'[t].pc = "done"
              => LET c == call[t].conn
                     o == call[t].node
                     n == ln'["A"]
                 IN /\ call'[t].result = NoNode
                    /\ c \notin n.incoming
                    /\ n.node[o].state = "CLOSED"
                    /\ \A id \in AllIDs : n.nodes[id] # o
                    /\ \A c2 \in Conns : n.connectionNodes[c2] # o]_vars

(***************************************************************************)
(* Claims about the shutdown.                                              *)
(***************************************************************************)

(* C15: the node leaves LISTENING only for CLOSING, in the step in which   *)
(* the receiver thread handles the stop packet of close(), and CLOSING     *)
(* only for CLOSED, in the step in which the command thread handles        *)
(* STOP_CMD, which it handles in no other state; close() has returned      *)
(* true only on a CLOSED node, and a close() that returns false changes    *)
(* nothing of the node.                                                    *)
C15_CloseStates ==
    /\ [][/\ state' # state
              => \/ /\ state = "LISTENING" /\ state' = "CLOSING"
                    /\ closePc = "sent" /\ closePc' = "joining"
                 \/ /\ state = "CLOSING" /\ state' = "CLOSED"
                    /\ Head(cmdThreadQueue) = StopCommand
                    /\ cmdThreadQueue' = Tail(cmdThreadQueue)
          /\ (/\ cmdThreadQueue # << >>
              /\ Head(cmdThreadQueue) = StopCommand
              /\ cmdThreadQueue' = Tail(cmdThreadQueue))
              => state = "CLOSING" /\ state' = "CLOSED"
          /\ refusals' # refusals
              => /\ state # "LISTENING"
                 /\ UNCHANGED << tokenVars, mapVars, dispVars >>]_vars
    /\ [](closePc = "returned" => state = "CLOSED")

C15_Witness == closePc = "returned" /\ refusals = 1

C17_NoPendingRequests == closePc = "returned" => ~hasPendingRequests

(***************************************************************************)
(* Claims about disconnect( node ).                                        *)
(***************************************************************************)

(* Node o is closed and gone from the maps of n. *)
Disconnected(n, o) ==
    /\ n.node[o].state = "CLOSED"
    /\ n.node[o].outgoing = NOCONN
    /\ \A id \in AllIDs : n.nodes[id] # o
    /\ \A c \in Conns : n.connectionNodes[c] # o

(* C18: a disconnect( node ) that has sent its packet returns true, with   *)
(* the node CLOSED, without outgoing connection, its connection out of the *)
(* connection set and the node in neither map; a disconnect that returns   *)
(* without sending changes nothing of the node, and returns false exactly  *)
(* for a null node or a local node that is not LISTENING.                  *)
C18_Disconnect ==
    [][/\ (disc.pc = "wait" /\ disc'.pc = "served")
           => LET c == ln["A"].node[disc.node].outgoing IN
              /\ c \notin ln'["A"].incoming
              /\ Disconnected(ln'["A"], disc.node)
       /\ (disc.pc = "served" /\ disc'.pc = "returned")
           => /\ disc'.result
              /\ Disconnected(ln["A"], disc.node)
              /\ UNCHANGED << ln, state >>
       /\ (disc' # disc /\ disc'.pc = "returned" /\ ~disc'.sent)
           => /\ UNCHANGED << ln, state >>
              /\ disc'.result = ~(disc'.node = NoNode
                                    \/ state # "LISTENING")]_vars

(***************************************************************************)
(* Claims about ObjectDataIStream.                                         *)
(***************************************************************************)

(* The k-th packet handed to addDataPacket is in sequence: it is the first *)
(* packet of the stream, which holds one version, and has sequence 0, or   *)
(* it follows the packet added before it in sequence and has its version.  *)
InSequence(k) ==
    LET p == packets[k].packet IN
    \/ /\ k = 1
       /\ p.sequence = 0
    \/ /\ k > 1
       /\ p.sequence = packets[k - 1].packet.sequence + 1
       /\ p.version = packets[k - 1].packet.version

(* C19: addDataPacket accepts and enqueues a packet exactly when it is in  *)
(* sequence, whatever was taken from the stream in between; any other      *)
(* packet is fatal and not enqueued.                                       *)
C19_SequenceInvariant ==
    \A k \in 1 .. Len(packets) :
        /\ packets[k].accepted <=> InSequence(k)
        /\ ~packets[k].accepted => fatal /\ sRefs[k] = 0

(* The stream got the packets 0 .. n of one version, the last one marked   *)
(* last, and nothing was taken from it before.                             *)
Received ==
    /\ packets # << >>
    /\ ~earlyGet
    /\ \A k \in 1 .. Len(packets) :
           /\ packets[k].accepted
           /\ packets[k].packet.sequence = k - 1
           /\ packets[k].packet.version = packets[1].packet.version
           /\ packets[k].packet.last <=> k = Len(packets)

(* C20: from a stream that got the packets 0 .. n of one version, the      *)
(* calls of getNextCommand return command 0, 1, .., n in this order, each  *)
(* once, and null from then on.                                            *)
C20_ConsumptionOrder ==
    Received
        => \A i \in 1 .. Len(returned) :
               returned[i] = IF i <= Len(packets) THEN i ELSE NoCommand

C20_Witness ==
    /\ Received
    /\ Len(packets) = 3
    /\ Len(returned) = 5

(* C22: the stream is ready exactly when a packet with last = true was     *)
(* added: not ready after packets that all have last = false, and ready    *)
(* from the add of a last packet on.                                       *)
C22_ReadyOnLast ==
    ready <=> \E k \in 1 .. Len(packets) :
                  packets[k].accepted /\ packets[k].packet.last

C22_Witness ==
    /\ ready
    /\ Len(packets) = 3
    /\ ~packets[1].packet.last /\ ~packets[2].packet.last
    /\ packets[3].packet.last /\ packets[3].accepted

(* Since the last reset() the stream got the packets 0 .. n of one         *)
(* version, the last one marked last, and nothing was taken before that.   *)
ReceivedSinceReset ==
    /\ Len(packets) > resetAt.packets
    /\ ~earlyGet
    /\ \A k \in resetAt.packets + 1 .. Len(packets) :
           /\ packets[k].accepted
           /\ packets[k].packet.sequence = k - resetAt.packets - 1
           /\ packets[k].packet.version
                  = packets[resetAt.packets + 1].packet.version
           /\ packets[k].packet.last <=> k = Len(packets)

(* How often command k is in deque cmds. *)
Holds(cmds, k) == Cardinality({ i \in 1 .. Len(cmds) : cmds[i] = k })

(* C21: after reset() the stream is as newly constructed: it is not ready  *)
(* and holds no reference until a packet is added, and the packets 0 .. n  *)
(* added after it come out of getNextCommand as from a new stream, in      *)
(* order, each once, then null.                                            *)
C21_ResetIsNew ==
    (resetAt # NoReset /\ ~destroyed /\ ~fatal)
        => /\ Len(packets) = resetAt.packets
               => /\ ~ready
                  /\ \A k \in 1 .. MaxPackets : Holds(commands, k) = 0
           /\ ReceivedSinceReset
               => \A i \in 1 .. Len(returned) - resetAt.returned :
                      returned[resetAt.returned + i] =
                          IF i <= Len(packets) - resetAt.packets
                          THEN resetAt.packets + i ELSE NoCommand

(* C23: the references held on a command are those of the deques it is     *)
(* in, one for the stream and one for each copy, so that no command is     *)
(* released twice; and none is held once the stream and its copies are     *)
(* destroyed.                                                              *)
C23_ReferenceBalance ==
    ~fatal
        => \A k \in 1 .. MaxPackets :
               sRefs[k] = Holds(commands, k)
                   + Cardinality({ i \in 1 .. MaxCopies :
                                     /\ copies[i] \notin {NoCopy, Gone}
                                     /\ Holds(copies[i], k) = 1 })

C23_Witness ==
    /\ destroyed
    /\ \A i \in 1 .. MaxCopies : copies[i] = Gone
    /\ Len(packets) = 3
    /\ resetAt # NoReset
    /\ \A k \in 1 .. 3 : packets[k].accepted /\ sRefs[k] = 0


(***************************************************************************)
(* Claims about deserializeChildren.                                       *)
(***************************************************************************)
Count(q, e) == Cardinality({ i \in 1 .. Len(q) : q[i] = e })
Incoming == { versions[k].identifier : k \in 1 .. Len(versions) }
OldNonNull == Range(old_) \ {NullChild}

(* C24: when deserializeChildren returns, result has one entry for every   *)
(* deserialized ObjectVersion, in the serialized order: the null child for *)
(* the identifier ZERO, the child of old_ with the identifier when old_    *)
(* holds one, and otherwise a child created by this call that was mapped   *)
(* to the ObjectVersion.                                                   *)
C24_Ordering ==
    dcPc = "returned" =>
        /\ Len(result) = Len(versions)
        /\ \A k \in 1 .. Len(versions) :
             LET id == versions[k].identifier
             IN  IF id = UUID_ZERO THEN result[k] = NullChild
                 ELSE IF \E c \in OldNonNull : getID(c) = id
                      THEN /\ result[k] \in OldNonNull
                           /\ getID(result[k]) = id
                      ELSE /\ result[k] \notin OldChildren \cup {NullChild}
                           /\ Count(result, result[k]) = 1
                           /\ Count(mapCalls, << result[k], versions[k] >>)
                                = 1

(* The call of the example: old_ = [A, B, C] with the identifiers 1, 2, 3  *)
(* and the list (2), (ZERO), (4), (1) give [B, null, a new child, A].      *)
C24_Witness ==
    /\ dcPc = "returned"
    /\ old_ = << 11, 12, 13 >>
    /\ [k \in 1 .. Len(versions) |-> versions[k].identifier]
         = << 2, UUID_ZERO, 4, 1 >>
    /\ result = << 12, NullChild, NewChild(3), 11 >>

(* C25: after a call, every non-null child of old_ whose identifier is not *)
(* in the incoming list was handed to release() exactly once, after its    *)
(* unmapObject when it is attached and not a master; no child of result    *)
(* was unmapped or released; and every non-null child of old_ is either in *)
(* result or released, never both and never neither.                       *)
C25_Removal ==
    dcPc \in {"returned", "fault"} =>
        \A c \in OldNonNull :
            LET rel == Count(removals, << "release", c >>)
                unm == Count(removals, << "unmapObject", c >>)
                kept == c \in Range(result)
            IN  /\ getID(c) \notin Incoming =>
                    /\ rel = 1
                    /\ unm = (IF c \in attached /\ ~childIsMaster THEN 1
                              ELSE 0)
                    /\ unm = 1 =>
                         \E i \in 1 .. Len(removals) - 1 :
                            /\ removals[i] = << "unmapObject", c >>
                            /\ removals[i + 1] = << "release", c >>
                /\ kept => rel = 0 /\ unm = 0
                /\ kept \/ rel = 1
                /\ ~(kept /\ rel = 1)

Written ==
    << IntFoo, FloatFoo, DoubleFoo,
       Flatten([i \in 1 .. nDoubles |-> DoubleOf(i - 1)]), message >>

C28_TextBounds ==
    (rpc = 5 \/ ioErr # "none") =>
        LET nElems == Decode(SubSeq(input, 1, SizeofUint64))
            remaining == Len(input) - SizeofUint64
        IN  IF nElems > remaining
            THEN /\ ioErr = "assert"
                 /\ got = << >>
                 /\ position = SizeofUint64
            ELSE /\ ioErr = "none"
                 /\ got = << SubSeq(input, SizeofUint64 + 1,
                                    SizeofUint64 + nElems) >>
                 /\ position = SizeofUint64 + nElems


(***************************************************************************)
(* Claims about releaseChildren.                                           *)
(***************************************************************************)
(* C29: when releaseChildren returns, on a master and on a slave instance, *)
(* no child that was in the vector is still attached.                      *)
C29_AllReleased ==
    rcPc = "returned" => rcAttached \cap Range(rcChildren0) = {}


(***************************************************************************)
(* Claims about _redispatchCommands.                                       *)
(***************************************************************************)
(* C30: _redispatchCommands returns whenever it is called; when it has     *)
(* returned, dispatchCommand takes no command of the pending list in the   *)
(* state reached; and every pass of its loop tried the commands in list    *)
(* order from the head of the list, up to the first one dispatched, the    *)
(* next pass starting on the list without that command.                    *)
C30_Fixpoint ==
    /\ [](rdPc = "returned" =>
            \A i \in 1 .. Len(pendingCommands) :
                ~dispatchCommand(pendingCommands[i], mapped))
    /\ [](\A k \in 1 .. Len(passes) :
            LET r == passes[k]
            IN  /\ r.tried \in 1 .. Len(r.list)
                /\ \A j \in 1 .. r.tried - 1 :
                       ~dispatchCommand(r.list[j], r.mapped)
                /\ r.hit = dispatchCommand(r.list[r.tried], r.mapped)
                /\ ~r.hit => r.tried = Len(r.list)
                /\ k < Len(passes) =>
                       /\ r.hit
                       /\ passes[k + 1].list = Erase(r.list, r.tried)
                /\ (k = Len(passes) /\ r.hit) =>
                       pendingCommands = Erase(r.list, r.tried))
    /\ (rdPc = "loop") ~> (rdPc = "returned")

(* A call that returned after two passes: the second command of the list  *)
(* was dispatched first, then the head of the list, which the first pass   *)
(* had tried and left pending.                                             *)
C30_Witness ==
    /\ rdPc = "returned"
    /\ Len(passes) = 2
    /\ passes[1].tried = 2 /\ passes[1].hit
    /\ passes[2].tried = 1 /\ passes[2].hit
    /\ passes[2].list[1] = passes[1].list[1]
    /\ pendingCommands = << >>


(***************************************************************************)
(* Claims about the receiver thread's error count.                         *)
(***************************************************************************)
(* C31: the receiver thread calls _handleDisconnect for an error only      *)
(* after more than 100 EVENT_ERROR in a row, and reaches its abort only    *)
(* after more than 10 EVENT_SELECT_ERROR in a row.                         *)
C31_ErrorThresholds ==
    /\ rtForced => errRun > ErrorLimit
    /\ rtAborted => selRun > SelectErrorLimit


(***************************************************************************)
(* Claims about the disconnect of a node.                                  *)
(***************************************************************************)
DisconnectOrder ==
    << "REMOVE_NODE", "CLOSED", "notifyDisconnect", "removeConnection" >>

(* The Node object of the peer. *)
PeerNode == PeerConnected.nodes[PeerID]

C33_RefusalFrame ==
    [][\A s \in Sides, c \in HsConns :
          LET id == IdOf(Other(s))
              o == ln[s].nodes[id]
          IN  (/\ PeerCmdConnect(s, c)
               /\ o # NoNode
               /\ ln[s].node[o].state = "CONNECTED")
              => /\ net'[c].toInit = Append(net[c].toInit, ZERO)
                 /\ c \notin ln'[s].incoming
                 /\ ln'[s].incoming = ln[s].incoming \ {c}
                 /\ ln'[s].node[o] = ln[s].node[o]
                 /\ ln'[s].nodes = ln[s].nodes
                 /\ ln'[s].connectionNodes = ln[s].connectionNodes]_vars

(* A refusal is on its way back: the refused side has closed its end. *)
C33_Witness ==
    \E s \in Sides, c \in HsConns :
        /\ c \in MadeBy(Other(s))
        /\ net[c].toInit = << ZERO >>
        /\ s \in net[c].closed
        /\ c \notin ln[s].incoming
        /\ ln[s].nodes[IdOf(Other(s))] # NoNode
        /\ ln[s].node[ln[s].nodes[IdOf(Other(s))]].state = "CONNECTED"


(* The CONNECT_REPLY with NodeID id is a refusal, or meets a node that is  *)
(* connected already.                                                      *)
RefusedReply(n, id) ==
    \/ id = ZERO
    \/ n.nodes[id] # NoNode /\ IsConnected(n.node[n.nodes[id]])

(* C34: a CONNECT_REPLY that carries ZERO, or the NodeID of a node that is *)
(* connected already, removes the connection it came on from the           *)
(* connection set and serves the waiting request with false, and the       *)
(* _connect that waits for it ends with CONNECT_TRY_AGAIN: the loop goes   *)
(* on, the attempt is not CONNECT_OK.                                      *)
C34_RefusedReplyTriesAgain ==
    [][/\ \A s \in Sides, c \in HsConns :
              (PeerCmdConnectReply(s, c)
                   /\ RefusedReply(ln[s], Head(net[c].toInit)))
              => /\ c \notin ln'[s].incoming
                 /\ app[s].pc = "wait" /\ app[s].conn = c
                 /\ app'[s].pc = "served" /\ ~app'[s].connected
       /\ \A s \in Sides :
              (ConnectServed(s) /\ ~app[s].connected)
              => /\ app'[s].pc = "loop"
                 /\ app'[s].result = NoNode]_vars

(* The thread of _connect has been served false for its connection. *)
C34_Witness ==
    \E s \in Sides :
        /\ app[s].pc = "served"
        /\ ~app[s].connected
        /\ app[s].conn \notin ln[s].incoming
        /\ ln[s].pendingConnect[app[s].conn] = NoNode

(* C37: a CONNECT_REPLY with the NodeID of a peer that is connected over   *)
(* another connection tears down the connection of the reply only: the     *)
(* peer stays CONNECTED, keeps its outgoing connection, and its entries in *)
(* both maps stay.                                                         *)
C37_SimultaneousReplyFrame ==
    [][\A s \in Sides, c \in HsConns :
          LET id == Head(net[c].toInit)
              peer == ln[s].nodes[id]
          IN  (/\ PeerCmdConnectReply(s, c)
               /\ id # ZERO
               /\ peer # NoNode
               /\ IsConnected(ln[s].node[peer]))
              => /\ c \notin ln'[s].incoming
                 /\ ln'[s].node[peer].state = "CONNECTED"
                 /\ ln'[s].node[peer].outgoing = ln[s].node[peer].outgoing
                 /\ ln'[s].nodes[id] = peer
                 /\ ln'[s].connectionNodes = ln[s].connectionNodes]_vars


(***************************************************************************)
(* Claims about a send token that is not available.                        *)
(***************************************************************************)
(* C35: an ACQUIRE handled while the token is not available is retained    *)
(* and queued without a reply when the timeout is indefinite or not more   *)
(* than the timeout has passed since lastSendToken; otherwise the queue is *)
(* discarded and the requester is sent the reply, the bit staying false.   *)
C35_AcquireWhileTaken ==
    [][(CmdAcquireSendToken /\ ~sendToken)
       => LET c == Head(cmdThreadQueue) IN
          IF timeout = LB_TIMEOUT_INDEFINITE \/ now - lastSendToken <= timeout
          THEN /\ sendTokenQueue' = Append(sendTokenQueue, c)
               /\ replies' = replies
               /\ ~sendToken'
          ELSE /\ sendTokenQueue' = << >>
               /\ replies' # replies
               /\ ~sendToken']_vars


(***************************************************************************)
(* Claims about the end of the receiver thread.                            *)
(***************************************************************************)
Left == closePc \in {"leaving", "exited", "returned"}

(* C36: when the receiver thread has left its loop every command that was  *)
(* pending is released once (its count, 1 while pending, is 0) and no      *)
(* handler is given a command any more; after the thread's end the pending *)
(* list is empty; and the object store is cleared only when the command    *)
(* thread is joined, which is when the node is CLOSED and the thread has   *)
(* taken its STOP command.                                                 *)
C36_PendingReleased ==
    /\ [](/\ \A i \in 1 .. Len(pendingCommands) :
                 refCount[pendingCommands[i]] = IF Left THEN 0 ELSE 1
          /\ Left => \A c \in DOMAIN refCount :
                         c.command = "OBJECT" => refCount[c] = 0
          /\ closePc \in {"exited", "returned"} => pendingCommands = << >>)
    /\ [][/\ state # "LISTENING" => dispatched' = dispatched
          /\ mapped' # mapped /\ mapped' = {} =>
                 /\ state = "CLOSED"
                 /\ cmdThreadQueue = << >>
                 /\ closePc = "leaving"]_vars

C36_Witness ==
    /\ closePc = "exited"
    /\ Cardinality(deferred \ Range(dispatched)) >= 2
    /\ mapped = {}
    /\ dispatched # << >>


(***************************************************************************)
(* Claims about null children.                                             *)
(***************************************************************************)
(* C38: a call of deserializeChildren on a vector old_ that holds null     *)
(* slots returns without a read through a null child, neither unmaps nor   *)
(* releases a null slot, and leaves one entry in result for each           *)
(* ObjectVersion, a null one for each ZERO identifier.                     *)
C38_NullTolerant ==
    (NullChild \in Range(old_) /\ dcPc \notin {"call", "none", "assert"}) =>
        /\ dcPc = "returned"
        /\ \A i \in 1 .. Len(removals) : removals[i][2] # NullChild
        /\ Len(result) = Len(versions)
        /\ \A k \in 1 .. Len(versions) :
               versions[k].identifier = UUID_ZERO => result[k] = NullChild


(***************************************************************************)
(* Claims about listen().                                                  *)
(***************************************************************************)
(* C39: when listen() has returned false the node is CLOSED, the           *)
(* connection set and both maps are as they were before the call (no pipe  *)
(* connection of the node itself, no listener), and the receiver thread    *)
(* was not started.                                                        *)
C39_FailedListenClean ==
    lsPc = "false" =>
        /\ state = "CLOSED"
        /\ ln["A"].node[SELF].state = "CLOSED"
        /\ ln["A"].incoming = {}
        /\ ln["A"].connectionNodes = Closed("A").connectionNodes
        /\ ln["A"].nodes = Closed("A").nodes
        /\ ~rcvStarted

=============================================================================
